---- MODULE Spec2Model ----
(***************************************************************************)
(* filecat: the interactive terminal file selector (runInteractive and the *)
(* tree, selection, filter and viewport functions it drives).              *)
(*                                                                         *)
(* Strings are sequences of one-character strings, so that substring       *)
(* search, lower-casing and collation are computed, not assumed.           *)
(* A tree is a record [items, node]: items is the list of root references  *)
(* and node maps a reference to its TreeItem.  Live items have positive    *)
(* references; the copy that filterTree makes of directory n has           *)
(* reference -n.  parent = 0 stands for an undefined parent.               *)
(* The variable tree holds the fields of the live items that change        *)
(* (selected, expanded); Tree is the live tree with every field.           *)
(***************************************************************************)
EXTENDS Integers, Sequences, FiniteSets, TLC

VARIABLES
    tree,           \* runInteractive: let tree; per live item, its two flags
    cursorIndex,    \* runInteractive: let cursorIndex
    scrollOffset,   \* runInteractive: let scrollOffset
    outputMode,     \* runInteractive: let outputMode
    showHelp,       \* runInteractive: let showHelp
    showIgnored,    \* runInteractive: let showIgnored
    searchMode,     \* runInteractive: let searchMode
    searchQuery,    \* runInteractive: let searchQuery
    terminalHeight, \* const terminalHeight of the current loop iteration
    input,          \* const input: the key read in the current iteration
    pc,             \* position in runInteractive: "build", "render", "read",
                    \* "done" (leaving the try block), "returned", "exited"
    result,         \* value returned by runInteractive once pc = "done"
    terminal,       \* the terminal: stdin in raw mode or not, what it shows
    call,           \* a function called on its own: its name and arguments
    ret,            \* the value that call returned
    effects         \* main: what the process has written so far, in order

vars == <<tree, cursorIndex, scrollOffset, outputMode, showHelp, showIgnored,
          searchMode, searchQuery, terminalHeight, input, pc, result,
          terminal, call, ret, effects>>

\* The variables outside runInteractive.
others == <<call, ret, effects>>

-----------------------------------------------------------------------------
(* Strings *)

\* String.prototype.toLowerCase on one character of the alphabet in use.
ToLowerChar(c) ==
    CASE c = "L" -> "l"
      [] c = "M" -> "m"
      [] c = "P" -> "p"
      [] c = "T" -> "t"
      [] OTHER -> c

\* Variant: a toLowerCase that leaves upper case letters alone.
ToLowerCaseNone(s) == s

ToLowerCase(s) == [i \in 1..Len(s) |-> ToLowerChar(s[i])]

\* String.prototype.includes: sub occurs in s as a contiguous substring.
Includes(s, sub) ==
    \E k \in 0..(Len(s) - Len(sub)) :
        \A i \in 1..Len(sub) : s[k + i] = sub[i]

\* Collation order of the characters in use (punctuation before letters,
\* lower case before upper case), as localeCompare orders them.
Collation ==
    <<".", "/", "a", "b", "c", "i", "l", "L", "m", "M", "n", "o", "p", "P",
      "r", "s", "t", "T", "u", "x", "z">>

CharRank(c) == CHOOSE k \in 1..Len(Collation) : Collation[k] = c

\* a.localeCompare(b) < 0, = 0, > 0 as -1, 0, 1.
RECURSIVE LocaleCompare(_, _)
LocaleCompare(a, b) ==
    IF a = <<>> /\ b = <<>> THEN 0
    ELSE IF a = <<>> THEN -1
    ELSE IF b = <<>> THEN 1
    ELSE IF CharRank(a[1]) < CharRank(b[1]) THEN -1
    ELSE IF CharRank(a[1]) > CharRank(b[1]) THEN 1
    ELSE LocaleCompare(Tail(a), Tail(b))

\* Path components joined with the separator: relative(cwd, entry.path).
RECURSIVE JoinPath(_)
JoinPath(p) ==
    IF p = <<>> THEN <<>>
    ELSE IF Len(p) = 1 THEN p[1]
    ELSE p[1] \o <<"/">> \o JoinPath(Tail(p))

\* Array.prototype.sort of a list of <<key, value>> pairs with the comparator
\* (a, b) => a.key.localeCompare(b.key); the sort is stable.
RECURSIVE InsertSorted(_, _)
InsertSorted(s, x) ==
    IF s = <<>> THEN <<x>>
    ELSE IF LocaleCompare(x[1], s[Len(s)][1]) >= 0 THEN Append(s, x)
    ELSE Append(InsertSorted(SubSeq(s, 1, Len(s) - 1), x), s[Len(s)])

RECURSIVE SortByKey(_)
SortByKey(s) ==
    IF s = <<>> THEN <<>>
    ELSE InsertSorted(SortByKey(SubSeq(s, 1, Len(s) - 1)), s[Len(s)])

-----------------------------------------------------------------------------
(* The file system under the working directory, as the walk enumerates it. *)
(* A path is the sequence of its components below cwd; <<>> is cwd itself. *)
(* Tracked: src.ts, src/main.ts, src/lib/x.ts.  Ignored: the empty          *)
(* directory TMP.  The root file is named src.ts so that the order of the  *)
(* tree (src/ first) differs from the order of the paths (src.ts first).   *)

N_root == <<"s", "r", "c", ".", "t", "s">>
N_src  == <<"s", "r", "c">>
N_main == <<"m", "a", "i", "n", ".", "t", "s">>
N_lib  == <<"l", "i", "b">>
N_x    == <<"x", ".", "t", "s">>
N_tmp  == <<"T", "M", "P">>

\* Entries in the order the walk yields them (not sorted).
WalkEntries ==
    << [path |-> <<>>,                  isDirectory |-> TRUE],
       [path |-> <<N_src>>,             isDirectory |-> TRUE],
       [path |-> <<N_src, N_main>>,     isDirectory |-> FALSE],
       [path |-> <<N_src, N_lib>>,      isDirectory |-> TRUE],
       [path |-> <<N_src, N_lib, N_x>>, isDirectory |-> FALSE],
       [path |-> <<N_tmp>>,             isDirectory |-> TRUE],
       [path |-> <<N_root>>,            isDirectory |-> FALSE] >>

\* Output of `git ls-files --cached --others --exclude-standard`.
GitVisible == { <<N_root>>, <<N_src, N_main>>, <<N_src, N_lib, N_x>> }

IsPrefix(p, q) == Len(p) <= Len(q) /\ SubSeq(q, 1, Len(p)) = p

\* Variant: a test that lets every directory pass.
IsPathTracked(path, trackedFiles, isDirectory) ==
    isDirectory \/ path \in trackedFiles

IsPathOrChildTracked(path, trackedFiles, isDirectory) ==
    IF ~isDirectory THEN path \in trackedFiles
    ELSE \E file \in trackedFiles : Len(path) < Len(file) /\ IsPrefix(path, file)

\* What running `git ls-files` can come to: the listing, an exit code other
\* than 0 (cwd is not in a repository), or no process at all (git missing).
GitListing == [outcome |-> "listed", files |-> GitVisible]

\* Variant: a failed lookup counts as a listing without files.
GetGitTrackedFilesFailClosed(git) ==
    IF git.outcome = "listed" THEN <<git.files>> ELSE <<{}>>

\* getGitTrackedFiles: <<the set of listed paths>>, or Undefined for null.
GetGitTrackedFiles(git) ==
    IF git.outcome = "listed" THEN <<git.files>> ELSE <<>>

\* buildTree, first pass: the walk's entries that pass the tracked-files test
\* (no test when trackedFiles is null: showIgnored, or the lookup failed),
\* sorted by path.
CollectEntriesWith(walk, git, showIgn) ==
    LET trackedFiles == IF showIgn THEN <<>> ELSE GetGitTrackedFiles(git)
        keep(e) == ~ (/\ trackedFiles # <<>>
                      /\ ~IsPathOrChildTracked(e.path, trackedFiles[1],
                                               e.isDirectory))
        entries == SelectSeq(walk, keep)
        sorted  == SortByKey([i \in 1..Len(entries) |->
                                <<JoinPath(entries[i].path), entries[i]>>])
    IN  [i \in 1..Len(sorted) |-> sorted[i][2]]

\* The first pass in the directory of the sessions, where git answers.
CollectEntries(showIgn) == CollectEntriesWith(WalkEntries, GitListing, showIgn)

ParentPath(path) == SubSeq(path, 1, Len(path) - 1)

\* buildTree, second pass, over the sorted entries.  The reference of an item
\* is the index of its entry; the root directory itself (path <<>>) gets no
\* item.  dirMap.get(parentPath): the directory entered last under that path
\* among the entries handled before entry k; 0 when there is none.
DirMapParent(entries, k) ==
    LET cands == {j \in 1..(k - 1) : /\ entries[j].path # <<>>
                                     /\ entries[j].isDirectory
                                     /\ entries[j].path = ParentPath(entries[k].path)}
    IN  IF cands = {} THEN 0 ELSE CHOOSE j \in cands : \A i \in cands : i <= j

\* The item made for entry k, given the parent of every entry.
NewItem(entries, parents, k) ==
    LET path == entries[k].path
    IN  [ path         |-> path,
          relativePath |-> JoinPath(path),
          name         |-> path[Len(path)],
          isDirectory  |-> entries[k].isDirectory,
          depth        |-> Len(path) - 1,
          selected     |-> FALSE,
          expanded     |-> FALSE,
          children     |-> IF entries[k].isDirectory
                           THEN SelectSeq([i \in 1..Len(entries) |-> i],
                                          LAMBDA c : parents[c] = k)
                           ELSE <<>>,
          parent       |-> parents[k] ]

\* An entry below depth 0 without a parent in dirMap gets an item that is
\* referenced from nowhere: neither pushed to items nor to a children list.
\* The sorted walk lists every directory before its content, so only the
\* root of the walk can be such an entry.
AssembleTree(entries) ==
    LET ids     == {k \in 1..Len(entries) : entries[k].path # <<>>}
        parents == [k \in 1..Len(entries) |->
                       IF k \in ids THEN DirMapParent(entries, k) ELSE -1]
        roots   == SelectSeq([i \in 1..Len(entries) |-> i],
                             LAMBDA c : c \in ids /\ parents[c] = 0
                                        /\ Len(entries[c].path) - 1 = 0)
    IN  [ items |-> roots,
          node  |-> [k \in ids |-> NewItem(entries, parents, k)] ]

BuildTree(showIgn) == AssembleTree(CollectEntries(showIgn))

\* The two trees a session can build, computed once.
BuiltTree == [b \in BOOLEAN |-> BuildTree(b)]

-----------------------------------------------------------------------------
(* Tree functions.  `node` is a map from references to TreeItems. *)

\* An optional argument that was not passed.
Undefined == <<>>

\* Variant: an optional value that is never looked at.
OrElseIgnoring(v, d) == d

\* The expression  v ?? d  for an optional v.
OrElse(v, d) == IF v = Undefined THEN d ELSE v[1]

\* Variant: a flattenTree that descends into every directory.
RECURSIVE FlattenTreeAll(_, _)
FlattenTreeAll(node, items) ==
    IF items = <<>> THEN <<>>
    ELSE <<Head(items)>> \o FlattenTreeAll(node, node[Head(items)].children)
                        \o FlattenTreeAll(node, Tail(items))

\* flattenTree: pre-order, descending only into expanded directories.
RECURSIVE FlattenTree(_, _)
FlattenTree(node, items) ==
    IF items = <<>> THEN <<>>
    ELSE LET r == Head(items)
         IN  <<r>>
             \o (IF node[r].isDirectory /\ node[r].expanded
                 THEN FlattenTree(node, node[r].children) ELSE <<>>)
             \o FlattenTree(node, Tail(items))

\* Variant: an updateParentSelection that stops at the parent.
UpdateParentOnly(node, parent) ==
    IF parent = 0 THEN node
    ELSE LET kids == node[parent].children
         IN  [node EXCEPT ![parent].selected =
                             \A i \in 1..Len(kids) : node[kids[i]].selected]

\* updateParentSelection: recompute parent and every ancestor above it.
RECURSIVE UpdateParentSelection(_, _)
UpdateParentSelection(node, parent) ==
    IF parent = 0 THEN node
    ELSE LET kids == node[parent].children
             allChildrenSelected == \A i \in 1..Len(kids) : node[kids[i]].selected
         IN  UpdateParentSelection(
                 [node EXCEPT ![parent].selected = allChildrenSelected],
                 node[parent].parent)

\* Variant: a toggleSelection whose loop over the children does nothing.
ToggleChildrenNone(node, children, newState) == node

\* Variant: a toggleSelection that marks everything below the item's parent.
ToggleSelectionBelowParent(node, item, selected) ==
    LET newState == OrElse(selected, ~node[item].selected)
        top == ParentPath(node[item].path)
    IN  [r \in DOMAIN node |->
            IF IsPrefix(top, node[r].path)
            THEN [node[r] EXCEPT !.selected = newState]
            ELSE node[r]]

\* toggleSelection(item, selected?): returns the map after the call.
RECURSIVE ToggleSelection(_, _, _)
RECURSIVE ToggleChildren(_, _, _)
ToggleSelection(node, item, selected) ==
    LET newState == OrElse(selected, ~node[item].selected)
        n1 == [node EXCEPT ![item].selected = newState]
        n2 == IF n1[item].isDirectory
              THEN ToggleChildren(n1, n1[item].children, newState)
              ELSE n1
    IN  UpdateParentSelection(n2, n2[item].parent)

\* The loop `for (const child of children) toggleSelection(child, newState)`.
ToggleChildren(node, children, newState) ==
    IF children = <<>> THEN node
    ELSE ToggleChildren(ToggleSelection(node, Head(children), <<newState>>),
                        Tail(children), newState)

\* Variant: a toggleAll that stops after the first item.
ToggleAllFirst(node, items, selected) ==
    IF items = <<>> THEN node
    ELSE ToggleChildren(node, <<Head(items)>>, selected)

\* Variant: a toggleAll that marks the listed items and nothing below them.
ToggleAllListedOnly(node, items, selected) ==
    [r \in DOMAIN node |->
        IF \E i \in 1..Len(items) : items[i] = r
        THEN [node[r] EXCEPT !.selected = selected]
        ELSE node[r]]

\* toggleAll(items, selected)
ToggleAll(node, items, selected) == ToggleChildren(node, items, selected)

\* allSelected(items)
RECURSIVE AllSelected(_, _)
AllSelected(node, items) ==
    \A i \in 1..Len(items) :
        /\ node[items[i]].selected
        /\ node[items[i]].isDirectory => AllSelected(node, node[items[i]].children)

\* Variant: only the directories of the list itself, not those below them.
SetAllExpandedTopLevel(node, items, expanded) ==
    [r \in DOMAIN node |->
        IF node[r].isDirectory /\ (\E i \in 1..Len(items) : items[i] = r)
        THEN [node[r] EXCEPT !.expanded = expanded]
        ELSE node[r]]

\* setAllExpanded(items, expanded): every directory below items.
RECURSIVE SetAllExpanded(_, _, _)
SetAllExpanded(node, items, expanded) ==
    IF items = <<>> THEN node
    ELSE LET r == Head(items)
             n1 == IF node[r].isDirectory
                   THEN SetAllExpanded([node EXCEPT ![r].expanded = expanded],
                                       node[r].children, expanded)
                   ELSE node
         IN  SetAllExpanded(n1, Tail(items), expanded)

\* Array indexes are 0-based in the program and 1-based here.
IsDir(node, flatItems, i) ==
    i \in 0..(Len(flatItems) - 1) /\ node[flatItems[i + 1]].isDirectory

\* Variant: a findNextFolder that does not wrap around.
FindNextFolderNoWrap(node, flatItems, currentIndex) ==
    LET after == {i \in (currentIndex + 1)..(Len(flatItems) - 1) : IsDir(node, flatItems, i)}
    IN  IF after # {} THEN CHOOSE i \in after : \A j \in after : i <= j
        ELSE currentIndex

\* findNextFolder(flatItems, currentIndex)
FindNextFolder(node, flatItems, currentIndex) ==
    LET after  == {i \in (currentIndex + 1)..(Len(flatItems) - 1) : IsDir(node, flatItems, i)}
        before == {i \in 0..(currentIndex - 1) : IsDir(node, flatItems, i)}
    IN  IF after # {} THEN CHOOSE i \in after : \A j \in after : i <= j
        ELSE IF before # {} THEN CHOOSE i \in before : \A j \in before : i <= j
        ELSE currentIndex

\* findPrevFolder(flatItems, currentIndex)
FindPrevFolder(node, flatItems, currentIndex) ==
    LET before == {i \in 0..(currentIndex - 1) : IsDir(node, flatItems, i)}
        after  == {i \in (currentIndex + 1)..(Len(flatItems) - 1) : IsDir(node, flatItems, i)}
    IN  IF before # {} THEN CHOOSE i \in before : \A j \in before : i >= j
        ELSE IF after # {} THEN CHOOSE i \in after : \A j \in after : i >= j
        ELSE currentIndex

\* The extension getSelectedFiles computes from a name.
Extension(name) ==
    LET dots == {i \in 1..Len(name) : name[i] = "."}
    IN  IF dots = {} THEN <<>>
        ELSE SubSeq(name, (CHOOSE i \in dots : \A j \in dots : j <= i) + 1, Len(name))

\* getSelectedFiles, the traversal: it descends into every children list.
RECURSIVE TraverseSelected(_, _)
TraverseSelected(node, items) ==
    IF items = <<>> THEN <<>>
    ELSE LET it == node[Head(items)]
         IN  (IF it.selected /\ ~it.isDirectory
              THEN << [absolutePath |-> it.path,
                       relativePath |-> it.relativePath,
                       extension    |-> Extension(it.name)] >>
              ELSE <<>>)
             \o (IF it.isDirectory THEN TraverseSelected(node, it.children) ELSE <<>>)
             \o TraverseSelected(node, Tail(items))

\* Variant: getSelectedFiles without its final sort.
GetSelectedFilesUnsorted(node, items) == TraverseSelected(node, items)

\* getSelectedFiles(items, cwd)
GetSelectedFiles(node, items) ==
    LET files  == TraverseSelected(node, items)
        sorted == SortByKey([i \in 1..Len(files) |-> <<files[i].relativePath, files[i]>>])
    IN  [i \in 1..Len(sorted) |-> sorted[i][2]]

\* filterTree.matchesQuery
MatchesQuery(item, lowerQuery) ==
    \/ Includes(ToLowerCase(item.name), lowerQuery)
    \/ Includes(ToLowerCase(item.relativePath), lowerQuery)

\* Variant: a filterItems that also expands the live directory it copies.
RECURSIVE FilterItemsExpandingLive(_, _, _)
FilterItemsExpandingLive(node, items, lowerQuery) ==
    IF items = <<>> THEN [result |-> <<>>, node |-> node]
    ELSE LET r == Head(items)
             item == node[r]
             sub == FilterItemsExpandingLive(node, item.children, lowerQuery)
             keepDir == sub.result # <<>> \/ MatchesQuery(item, lowerQuery)
             filteredItem == [item EXCEPT !.children = sub.result, !.expanded = TRUE]
             pushed == IF item.isDirectory
                       THEN IF keepDir THEN <<-r>> ELSE <<>>
                       ELSE IF MatchesQuery(item, lowerQuery) THEN <<r>> ELSE <<>>
             node1 == IF item.isDirectory /\ keepDir
                      THEN (-r :> filteredItem) @@
                              [sub.node EXCEPT ![r].expanded = TRUE]
                      ELSE node
             rest == FilterItemsExpandingLive(node1, Tail(items), lowerQuery)
         IN  [result |-> pushed \o rest.result, node |-> rest.node]

\* filterTree.filterItems: one pass over items.  Returns the filtered list
\* (result) and the map extended with the copies made on the way: a retained
\* directory r is represented by its copy, -r,
\*     {...item, children: filteredChildren, expanded: true}.
RECURSIVE FilterItems(_, _, _)
FilterItems(node, items, lowerQuery) ==
    IF items = <<>> THEN [result |-> <<>>, node |-> node]
    ELSE LET r == Head(items)
             item == node[r]
             sub == FilterItems(node, item.children, lowerQuery)
             keepDir == sub.result # <<>> \/ MatchesQuery(item, lowerQuery)
             filteredItem == [item EXCEPT !.children = sub.result, !.expanded = TRUE]
             pushed == IF item.isDirectory
                       THEN IF keepDir THEN <<-r>> ELSE <<>>
                       ELSE IF MatchesQuery(item, lowerQuery) THEN <<r>> ELSE <<>>
             node1 == IF item.isDirectory /\ keepDir
                      THEN (-r :> filteredItem) @@ sub.node
                      ELSE node
             rest == FilterItems(node1, Tail(items), lowerQuery)
         IN  [result |-> pushed \o rest.result, node |-> rest.node]

\* Variant: the empty query is filtered with like any other.
FilterTreeAlwaysFiltering(t, query) ==
    LET filtered == FilterItems(t.node, t.items, ToLowerCase(query))
    IN  [items |-> filtered.result, node |-> filtered.node]

\* filterTree(items, query): the filtered root list and the extended map.
FilterTree(t, query) ==
    IF query = <<>> THEN t
    ELSE LET filtered == FilterItems(t.node, t.items, ToLowerCase(query))
         IN  [items |-> filtered.result, node |-> filtered.node]

\* Variant: the cycle taken in the other direction.
NextOutputModeBackwards(current) ==
    LET modes == <<"stdout", "clipboard", "file">>
        idx == CHOOSE i \in 1..3 : modes[i] = current
    IN  modes[((idx + 1) % 3) + 1]

\* nextOutputMode(current)
NextOutputMode(current) ==
    LET modes == <<"stdout", "clipboard", "file">>
        idx == CHOOSE i \in 1..3 : modes[i] = current
    IN  modes[(idx % 3) + 1]

-----------------------------------------------------------------------------
(* Bounds of the model and constants of the program. *)

\* Row count getTerminalSize returns when Deno.consoleSize throws.
FallbackRows == 24

\* Rows runInteractive reserves for header and footer.
ReservedRows == 10

\* Terminal row counts above the reservation that consoleSize reports.
MaxExtraRows == 2

\* Longest query typed.
MaxQueryLen == 4

\* What getTerminalSize can return.
TermRows == (ReservedRows..(ReservedRows + MaxExtraRows)) \cup {FallbackRows}

\* The words typed in SearchEntry: a printable key is accepted by the model
\* when the query stays a prefix of one of them.
QueryWords ==
    { <<"m", "a", "i", "n", ".", "t", "s">>, <<"L">>, <<"p">>, <<"q">> }

QueryPrefixes ==
    UNION { {SubSeq(w, 1, k) : k \in {j \in 0..Len(w) : j <= MaxQueryLen}} :
            w \in QueryWords }

PrintableChars == UNION { {w[i] : i \in 1..Len(w)} : w \in QueryWords }

\* Nothing read yet in this iteration (also: stdin at its end).
NoInput == ""

NoResult == [kind |-> "running"]
NoCall == [fn |-> "none"]
NoReturn == [kind |-> "none"]
Cancelled == [kind |-> "null"]

-----------------------------------------------------------------------------
(* runInteractive *)

\* What the variable tree keeps of a map of items: the flags of the live
\* items.  The other fields never change after buildTree, and the copies
\* filterTree made die with the loop iteration.
Flags(node) ==
    [r \in {k \in DOMAIN node : k > 0} |->
        [selected |-> node[r].selected, expanded |-> node[r].expanded]]

\* The items of built that flags knows, carrying the flags kept in flags
\* (flags knows all of them, or none when the tree is the empty list).
WithFlags(built, flags) ==
    [ items |-> SelectSeq(built.items, LAMBDA r : r \in DOMAIN flags),
      node  |-> [r \in DOMAIN built.node \cap DOMAIN flags |->
                    [built.node[r] EXCEPT !.selected = flags[r].selected,
                                          !.expanded = flags[r].expanded]] ]

\* The items buildTree made for showIgn, carrying the flags kept in flags.
TreeOf(flags, showIgn) == WithFlags(BuiltTree[showIgn], flags)

\* const filteredTree = searchQuery ? filterTree(tree, searchQuery) : tree
FilteredTreeOf(t, query) == IF query # <<>> THEN FilterTree(t, query) ELSE t

\* The live tree.
Tree == TreeOf(tree, showIgnored)

FilteredTree == FilteredTreeOf(Tree, searchQuery)

\* flattenTree of a tree held as [items, node]
Flatten(t) == FlattenTree(t.node, t.items)

\* const flatItems = flattenTree(filteredTree)
FlatItems == Flatten(FilteredTree)

\* flatItems[index] is defined (indexes are 0-based in the program)
HasItem(flatItems, index) == index \in 0..(Len(flatItems) - 1)

\* flatItems[index]
ItemAt(flatItems, index) == flatItems[index + 1]

\* Array.prototype.indexOf
IndexOf(seq, x) ==
    IF \E i \in 1..Len(seq) : seq[i] = x
    THEN (CHOOSE i \in 1..Len(seq) : seq[i] = x /\ \A j \in 1..(i - 1) : seq[j] # x) - 1
    ELSE -1

Max(a, b) == IF a >= b THEN a ELSE b
Min(a, b) == IF a <= b THEN a ELSE b

\* The footer's count: getSelectedFiles(flatItems.map((i) => i), ".").length
SelectedCount ==
    LET ft == FilteredTree
    IN  Len(GetSelectedFiles(ft.node, FlattenTree(ft.node, ft.items)))

Init ==
    /\ tree = Flags(BuiltTree[FALSE].node)
    /\ cursorIndex = 0
    /\ scrollOffset = 0
    /\ outputMode = "clipboard"
    /\ showHelp = FALSE
    /\ showIgnored = FALSE
    /\ searchMode = FALSE
    /\ searchQuery = <<>>
    /\ terminalHeight = 0
    /\ input = NoInput
    /\ pc = "render"
    /\ result = NoResult
    /\ terminal = [raw |-> TRUE, screen |-> "shell"]
    /\ call = NoCall
    /\ ret = NoReturn
    /\ effects = <<>>

\* Variant: a loop head whose scroll adjustment is off by one row.
LoopHeadOffByOne(rows) ==
    /\ pc = "render"
    /\ LET length == Len(FlatItems)
           cursor == IF cursorIndex >= length
                     THEN Max(0, length - 1) ELSE cursorIndex
           visibleHeight == rows - ReservedRows
       IN  /\ terminalHeight' = rows
           /\ input' = NoInput
           /\ cursorIndex' = cursor
           /\ scrollOffset' =
                 IF cursor < scrollOffset THEN cursor
                 ELSE IF cursor >= scrollOffset + visibleHeight
                      THEN cursor - visibleHeight
                      ELSE scrollOffset
    /\ pc' = "read"
    /\ terminal' = [terminal EXCEPT !.screen = "frame"]
    /\ UNCHANGED others
    /\ UNCHANGED <<tree, outputMode, showHelp, showIgnored, searchMode,
                   searchQuery, result>>

\* Head of the loop with getTerminalSize returning rows: filter, flatten,
\* bound the cursor, adjust the scroll, render; then wait for a key.
LoopHead(rows) ==
    /\ pc = "render"
    /\ LET length == Len(FlatItems)
           cursor == IF cursorIndex >= length
                     THEN Max(0, length - 1) ELSE cursorIndex
           visibleHeight == rows - ReservedRows
       IN  /\ terminalHeight' = rows
           /\ input' = NoInput
           /\ cursorIndex' = cursor
           /\ scrollOffset' =
                 IF cursor < scrollOffset THEN cursor
                 ELSE IF cursor >= scrollOffset + visibleHeight
                      THEN cursor - visibleHeight + 1
                      ELSE scrollOffset
    /\ pc' = "read"
    /\ terminal' = [terminal EXCEPT !.screen = "frame"]
    /\ UNCHANGED others
    /\ UNCHANGED <<tree, outputMode, showHelp, showIgnored, searchMode,
                   searchQuery, result>>

\* render: the lines above the rows (three of header, the status bar, two
\* of search bar when searching or filtered, six of help when shown, one
\* blank), and the number of rows it slices out of flatItems.
HeaderLines(help, mode, query) ==
    3 + 1 + (IF mode \/ query # <<>> THEN 2 ELSE 0)
          + (IF help THEN 6 ELSE 0) + 1

AvailableHeight(rows, help, mode, query) ==
    rows - HeaderLines(help, mode, query) - 2

\* render: flatItems.slice(scrollOffset, scrollOffset + availableHeight),
\* as the set of the indexes drawn (0-based).
VisibleIndexes(flatItems, offset, availableHeight) ==
    LET len == Len(flatItems)
        from == IF offset < 0 THEN Max(0, len + offset) ELSE Min(offset, len)
        end  == offset + availableHeight
        to   == IF end < 0 THEN Max(0, len + end) ELSE Min(end, len)
    IN  { i \in 0..(len - 1) : from <= i /\ i < to }

\* The terminal reports any of its sizes.
Render == \E rows \in TermRows : LoopHead(rows)

\* Deno.consoleSize throws at every iteration: the size is the fallback.
RenderFallback == LoopHead(FallbackRows)

\* Deno.stdin.read returns null: the loop breaks and null is returned.
ReadEOF ==
    /\ pc = "read"
    /\ input' = NoInput
    /\ pc' = "done"
    /\ result' = Cancelled
    /\ UNCHANGED <<tree, cursorIndex, scrollOffset, outputMode, showHelp,
                   showIgnored, searchMode, searchQuery, terminalHeight>>
    /\ UNCHANGED terminal
    /\ UNCHANGED others

(* SearchEntry *)

\* Variant: leaving SearchEntry drops the query.
SearchExitClearing ==
    /\ pc = "read" /\ searchMode
    /\ \E k \in {"escape", "enter"} : input' = k
    /\ searchMode' = FALSE
    /\ searchQuery' = <<>>
    /\ pc' = "render"
    /\ UNCHANGED <<tree, cursorIndex, scrollOffset, outputMode, showHelp,
                   showIgnored, terminalHeight, result>>
    /\ UNCHANGED terminal
    /\ UNCHANGED others

SearchExit ==
    /\ pc = "read" /\ searchMode
    /\ \E k \in {"escape", "enter"} : input' = k
    /\ searchMode' = FALSE
    /\ pc' = "render"
    /\ UNCHANGED <<tree, cursorIndex, scrollOffset, outputMode, showHelp,
                   showIgnored, searchQuery, terminalHeight, result>>
    /\ UNCHANGED terminal
    /\ UNCHANGED others

\* Variant: a backspace that leaves the cursor and the scroll where they are.
SearchBackspaceInPlace ==
    /\ pc = "read" /\ searchMode
    /\ input' = "backspace"
    /\ searchQuery' = SubSeq(searchQuery, 1, Len(searchQuery) - 1)
    /\ pc' = "render"
    /\ UNCHANGED <<tree, cursorIndex, scrollOffset, outputMode, showHelp,
                   showIgnored, searchMode, terminalHeight, result>>
    /\ UNCHANGED terminal
    /\ UNCHANGED others

SearchBackspace ==
    /\ pc = "read" /\ searchMode
    /\ input' = "backspace"
    /\ searchQuery' = SubSeq(searchQuery, 1, Len(searchQuery) - 1)
    /\ cursorIndex' = 0
    /\ scrollOffset' = 0
    /\ pc' = "render"
    /\ UNCHANGED <<tree, outputMode, showHelp, showIgnored, searchMode,
                   terminalHeight, result>>
    /\ UNCHANGED terminal
    /\ UNCHANGED others

SearchType ==
    /\ pc = "read" /\ searchMode
    /\ \E char \in PrintableChars :
        /\ Append(searchQuery, char) \in QueryPrefixes
        /\ input' = char
        /\ searchQuery' = Append(searchQuery, char)
    /\ cursorIndex' = 0
    /\ scrollOffset' = 0
    /\ pc' = "render"
    /\ UNCHANGED <<tree, outputMode, showHelp, showIgnored, searchMode,
                   terminalHeight, result>>
    /\ UNCHANGED terminal
    /\ UNCHANGED others

\* Any other input while typing (arrows, control bytes): ignored.
\* Variant: the interrupt byte ends the session while typing, too.
SearchOtherQuitting ==
    /\ pc = "read" /\ searchMode
    /\ \E k \in {"up", "ctrl-c"} : input' = k
    /\ pc' = IF input' = "ctrl-c" THEN "done" ELSE "render"
    /\ result' = IF input' = "ctrl-c" THEN Cancelled ELSE result
    /\ UNCHANGED <<tree, cursorIndex, scrollOffset, outputMode, showHelp,
                   showIgnored, searchMode, searchQuery, terminalHeight>>
    /\ UNCHANGED terminal
    /\ UNCHANGED others

SearchOther ==
    /\ pc = "read" /\ searchMode
    /\ \E k \in {"up", "ctrl-c"} : input' = k
    /\ pc' = "render"
    /\ UNCHANGED <<tree, cursorIndex, scrollOffset, outputMode, showHelp,
                   showIgnored, searchMode, searchQuery, terminalHeight, result>>
    /\ UNCHANGED terminal
    /\ UNCHANGED others

(* Browsing *)

\* Variant: quitting hands over what is selected, as confirm does.
KeyQuitWithSelection ==
    /\ pc = "read" /\ ~searchMode
    /\ \E k \in {"q", "ctrl-c"} : input' = k
    /\ pc' = "done"
    /\ result' = [kind |-> "result",
                  files |-> GetSelectedFiles(Tree.node, Tree.items),
                  outputMode |-> outputMode]
    /\ UNCHANGED <<tree, cursorIndex, scrollOffset, outputMode, showHelp,
                   showIgnored, searchMode, searchQuery, terminalHeight>>
    /\ UNCHANGED terminal
    /\ UNCHANGED others

KeyQuit ==
    /\ pc = "read" /\ ~searchMode
    /\ \E k \in {"q", "ctrl-c"} : input' = k
    /\ pc' = "done"
    /\ result' = Cancelled
    /\ UNCHANGED <<tree, cursorIndex, scrollOffset, outputMode, showHelp,
                   showIgnored, searchMode, searchQuery, terminalHeight>>
    /\ UNCHANGED terminal
    /\ UNCHANGED others

KeyEnter ==
    /\ pc = "read" /\ ~searchMode
    /\ input' = "enter"
    /\ pc' = "done"
    /\ result' = [kind |-> "result",
                  files |-> GetSelectedFiles(Tree.node, Tree.items),
                  outputMode |-> outputMode]
    /\ UNCHANGED <<tree, cursorIndex, scrollOffset, outputMode, showHelp,
                   showIgnored, searchMode, searchQuery, terminalHeight>>
    /\ UNCHANGED terminal
    /\ UNCHANGED others

KeySlash ==
    /\ pc = "read" /\ ~searchMode
    /\ input' = "/"
    /\ searchMode' = TRUE
    /\ pc' = "render"
    /\ UNCHANGED <<tree, cursorIndex, scrollOffset, outputMode, showHelp,
                   showIgnored, searchQuery, terminalHeight, result>>
    /\ UNCHANGED terminal
    /\ UNCHANGED others

\* Variant: an escape that clears the query and leaves the cursor alone.
KeyEscapeInPlace ==
    /\ pc = "read" /\ ~searchMode
    /\ input' = "escape"
    /\ searchQuery' = <<>>
    /\ pc' = "render"
    /\ UNCHANGED <<tree, cursorIndex, scrollOffset, outputMode, showHelp,
                   showIgnored, searchMode, terminalHeight, result>>
    /\ UNCHANGED terminal
    /\ UNCHANGED others

KeyEscape ==
    /\ pc = "read" /\ ~searchMode
    /\ input' = "escape"
    /\ IF searchQuery # <<>>
       THEN /\ searchQuery' = <<>>
            /\ cursorIndex' = 0
            /\ scrollOffset' = 0
       ELSE UNCHANGED <<searchQuery, cursorIndex, scrollOffset>>
    /\ pc' = "render"
    /\ UNCHANGED <<tree, outputMode, showHelp, showIgnored, searchMode,
                   terminalHeight, result>>
    /\ UNCHANGED terminal
    /\ UNCHANGED others

KeyOutput ==
    /\ pc = "read" /\ ~searchMode
    /\ input' = "o"
    /\ outputMode' = NextOutputMode(outputMode)
    /\ pc' = "render"
    /\ UNCHANGED <<tree, cursorIndex, scrollOffset, showHelp, showIgnored,
                   searchMode, searchQuery, terminalHeight, result>>
    /\ UNCHANGED terminal
    /\ UNCHANGED others

KeyHelp ==
    /\ pc = "read" /\ ~searchMode
    /\ input' = "?"
    /\ showHelp' = ~showHelp
    /\ pc' = "render"
    /\ UNCHANGED <<tree, cursorIndex, scrollOffset, outputMode, showIgnored,
                   searchMode, searchQuery, terminalHeight, result>>
    /\ UNCHANGED terminal
    /\ UNCHANGED others

\* Variant: a rebuild that carries the flags of the items it finds again.
KeyIgnoredKeepingFlags ==
    /\ pc = "read" /\ ~searchMode
    /\ input' = "i"
    /\ showIgnored' = ~showIgnored
    /\ tree' = [r \in DOMAIN BuiltTree[~showIgnored].node |->
                   IF r \in DOMAIN tree THEN tree[r]
                   ELSE [selected |-> FALSE, expanded |-> FALSE]]
    /\ cursorIndex' = 0
    /\ scrollOffset' = 0
    /\ pc' = "render"
    /\ UNCHANGED <<outputMode, showHelp, searchMode, searchQuery,
                   terminalHeight, result>>
    /\ UNCHANGED terminal
    /\ UNCHANGED others

KeyIgnored ==
    /\ pc = "read" /\ ~searchMode
    /\ input' = "i"
    /\ showIgnored' = ~showIgnored
    /\ tree' = Flags(BuiltTree[~showIgnored].node)
    /\ cursorIndex' = 0
    /\ scrollOffset' = 0
    /\ pc' = "render"
    /\ UNCHANGED <<outputMode, showHelp, searchMode, searchQuery,
                   terminalHeight, result>>
    /\ UNCHANGED terminal
    /\ UNCHANGED others

\* Variant: space toggles the live item behind the row, not the row.
KeySpaceOnLiveItem ==
    /\ pc = "read" /\ ~searchMode
    /\ input' = " "
    /\ LET ft == FilteredTree
           flatItems == FlattenTree(ft.node, ft.items)
       IN  tree' = IF HasItem(flatItems, cursorIndex)
                   THEN LET row == ItemAt(flatItems, cursorIndex)
                        IN  Flags(ToggleSelection(ft.node,
                                                  IF row < 0 THEN -row ELSE row,
                                                  Undefined))
                   ELSE tree
    /\ pc' = "render"
    /\ UNCHANGED <<cursorIndex, scrollOffset, outputMode, showHelp, showIgnored,
                   searchMode, searchQuery, terminalHeight, result>>
    /\ UNCHANGED terminal
    /\ UNCHANGED others

KeySpace ==
    /\ pc = "read" /\ ~searchMode
    /\ input' = " "
    /\ LET ft == FilteredTree
           flatItems == FlattenTree(ft.node, ft.items)
       IN  tree' = IF HasItem(flatItems, cursorIndex)
                   THEN Flags(ToggleSelection(ft.node, ItemAt(flatItems, cursorIndex),
                                              Undefined))
                   ELSE tree
    /\ pc' = "render"
    /\ UNCHANGED <<cursorIndex, scrollOffset, outputMode, showHelp, showIgnored,
                   searchMode, searchQuery, terminalHeight, result>>
    /\ UNCHANGED terminal
    /\ UNCHANGED others

\* Variant: an 'a' key that toggles the whole tree whatever the query is.
KeyToggleAllWholeTree ==
    /\ pc = "read" /\ ~searchMode
    /\ input' = "a"
    /\ tree' = LET allSel == AllSelected(Tree.node, Tree.items)
               IN  Flags(ToggleAll(Tree.node, Tree.items, ~allSel))
    /\ pc' = "render"
    /\ UNCHANGED <<cursorIndex, scrollOffset, outputMode, showHelp, showIgnored,
                   searchMode, searchQuery, terminalHeight, result>>
    /\ UNCHANGED terminal
    /\ UNCHANGED others

\* The `if (input === "a")` block on the live tree t with the query as it
\* is: the map of the items after it.
ToggleAllKey(t, query) ==
    IF query # <<>>
    THEN LET ft == FilteredTreeOf(t, query)
             flatItems == FlattenTree(ft.node, ft.items)
             allSel == \A i \in 1..Len(flatItems) : ft.node[flatItems[i]].selected
         IN  ToggleChildren(ft.node, flatItems, ~allSel)
    ELSE LET allSel == AllSelected(t.node, t.items)
         IN  ToggleAll(t.node, t.items, ~allSel)

\* Variant: toggle-all also opens every directory.
KeyToggleAllExpanding ==
    /\ pc = "read" /\ ~searchMode
    /\ input' = "a"
    /\ tree' = Flags(SetAllExpanded(ToggleAllKey(Tree, searchQuery), Tree.items, TRUE))
    /\ pc' = "render"
    /\ UNCHANGED <<cursorIndex, scrollOffset, outputMode, showHelp, showIgnored,
                   searchMode, searchQuery, terminalHeight, result>>
    /\ UNCHANGED terminal
    /\ UNCHANGED others

KeyToggleAll ==
    /\ pc = "read" /\ ~searchMode
    /\ input' = "a"
    /\ tree' = Flags(ToggleAllKey(Tree, searchQuery))
    /\ pc' = "render"
    /\ UNCHANGED <<cursorIndex, scrollOffset, outputMode, showHelp, showIgnored,
                   searchMode, searchQuery, terminalHeight, result>>
    /\ UNCHANGED terminal
    /\ UNCHANGED others

KeyUp ==
    /\ pc = "read" /\ ~searchMode
    /\ input' = "up"
    /\ cursorIndex' = Max(0, cursorIndex - 1)
    /\ pc' = "render"
    /\ UNCHANGED <<tree, scrollOffset, outputMode, showHelp, showIgnored,
                   searchMode, searchQuery, terminalHeight, result>>
    /\ UNCHANGED terminal
    /\ UNCHANGED others

KeyDown ==
    /\ pc = "read" /\ ~searchMode
    /\ input' = "down"
    /\ cursorIndex' = Min(Len(FlatItems) - 1, cursorIndex + 1)
    /\ pc' = "render"
    /\ UNCHANGED <<tree, scrollOffset, outputMode, showHelp, showIgnored,
                   searchMode, searchQuery, terminalHeight, result>>
    /\ UNCHANGED terminal
    /\ UNCHANGED others

\* Variant: a left arrow that closes the live directory behind the row.
KeyLeftOnLiveItem ==
    /\ pc = "read" /\ ~searchMode
    /\ input' = "left"
    /\ LET ft == FilteredTree
           flatItems == FlattenTree(ft.node, ft.items)
           has == HasItem(flatItems, cursorIndex)
           item == ItemAt(flatItems, cursorIndex)
           live == IF item < 0 THEN -item ELSE item
       IN  IF has /\ ft.node[item].isDirectory /\ ft.node[item].expanded
           THEN /\ tree' = Flags([ft.node EXCEPT ![live].expanded = FALSE])
                /\ UNCHANGED cursorIndex
           ELSE IF has /\ ft.node[item].parent # 0
           THEN LET parentIndex == IndexOf(flatItems, ft.node[item].parent)
                IN  /\ cursorIndex' = IF parentIndex >= 0 THEN parentIndex
                                      ELSE cursorIndex
                    /\ UNCHANGED tree
           ELSE UNCHANGED <<tree, cursorIndex>>
    /\ pc' = "render"
    /\ UNCHANGED <<scrollOffset, outputMode, showHelp, showIgnored, searchMode,
                   searchQuery, terminalHeight, result>>
    /\ UNCHANGED terminal
    /\ UNCHANGED others

\* The left arrow.  Writing expanded on a copy changes nothing that lives.
KeyLeft ==
    /\ pc = "read" /\ ~searchMode
    /\ input' = "left"
    /\ LET ft == FilteredTree
           flatItems == FlattenTree(ft.node, ft.items)
           has == HasItem(flatItems, cursorIndex)
           item == ItemAt(flatItems, cursorIndex)
       IN  IF has /\ ft.node[item].isDirectory /\ ft.node[item].expanded
           THEN /\ tree' = Flags([ft.node EXCEPT ![item].expanded = FALSE])
                /\ UNCHANGED cursorIndex
           ELSE IF has /\ ft.node[item].parent # 0
           THEN LET parentIndex == IndexOf(flatItems, ft.node[item].parent)
                IN  /\ cursorIndex' = IF parentIndex >= 0 THEN parentIndex
                                      ELSE cursorIndex
                    /\ UNCHANGED tree
           ELSE UNCHANGED <<tree, cursorIndex>>
    /\ pc' = "render"
    /\ UNCHANGED <<scrollOffset, outputMode, showHelp, showIgnored, searchMode,
                   searchQuery, terminalHeight, result>>
    /\ UNCHANGED terminal
    /\ UNCHANGED others

KeyRight ==
    /\ pc = "read" /\ ~searchMode
    /\ input' = "right"
    /\ LET ft == FilteredTree
           flatItems == FlattenTree(ft.node, ft.items)
           has == HasItem(flatItems, cursorIndex)
           item == ItemAt(flatItems, cursorIndex)
       IN  tree' = IF has /\ ft.node[item].isDirectory /\ ~ft.node[item].expanded
                   THEN Flags([ft.node EXCEPT ![item].expanded = TRUE])
                   ELSE tree
    /\ pc' = "render"
    /\ UNCHANGED <<cursorIndex, scrollOffset, outputMode, showHelp, showIgnored,
                   searchMode, searchQuery, terminalHeight, result>>
    /\ UNCHANGED terminal
    /\ UNCHANGED others

KeyExpandAll ==
    /\ pc = "read" /\ ~searchMode
    /\ input' = "e"
    /\ tree' = Flags(SetAllExpanded(Tree.node, Tree.items, TRUE))
    /\ pc' = "render"
    /\ UNCHANGED <<cursorIndex, scrollOffset, outputMode, showHelp, showIgnored,
                   searchMode, searchQuery, terminalHeight, result>>
    /\ UNCHANGED terminal
    /\ UNCHANGED others

KeyCollapseAll ==
    /\ pc = "read" /\ ~searchMode
    /\ input' = "c"
    /\ tree' = Flags(SetAllExpanded(Tree.node, Tree.items, FALSE))
    /\ cursorIndex' = 0
    /\ pc' = "render"
    /\ UNCHANGED <<scrollOffset, outputMode, showHelp, showIgnored, searchMode,
                   searchQuery, terminalHeight, result>>
    /\ UNCHANGED terminal
    /\ UNCHANGED others

KeyNextFolder ==
    /\ pc = "read" /\ ~searchMode
    /\ input' = "f"
    /\ LET ft == FilteredTree
       IN  cursorIndex' = FindNextFolder(ft.node, FlattenTree(ft.node, ft.items),
                                         cursorIndex)
    /\ pc' = "render"
    /\ UNCHANGED <<tree, scrollOffset, outputMode, showHelp, showIgnored,
                   searchMode, searchQuery, terminalHeight, result>>
    /\ UNCHANGED terminal
    /\ UNCHANGED others

KeyPrevFolder ==
    /\ pc = "read" /\ ~searchMode
    /\ input' = "F"
    /\ LET ft == FilteredTree
       IN  cursorIndex' = FindPrevFolder(ft.node, FlattenTree(ft.node, ft.items),
                                         cursorIndex)
    /\ pc' = "render"
    /\ UNCHANGED <<tree, scrollOffset, outputMode, showHelp, showIgnored,
                   searchMode, searchQuery, terminalHeight, result>>
    /\ UNCHANGED terminal
    /\ UNCHANGED others

\* An input no branch of the Browsing dispatch matches.
KeyOther ==
    /\ pc = "read" /\ ~searchMode
    /\ input' = "x"
    /\ pc' = "render"
    /\ UNCHANGED <<tree, cursorIndex, scrollOffset, outputMode, showHelp,
                   showIgnored, searchMode, searchQuery, terminalHeight, result>>
    /\ UNCHANGED terminal
    /\ UNCHANGED others

(* Start, failures and end of the session *)

\* The flags of the empty list buildTree returns when its walk throws.
EmptyFlags == [r \in {} |-> [selected |-> FALSE, expanded |-> FALSE]]

\* runInteractive has set its locals and is about to build the tree.
InitSession ==
    /\ tree = EmptyFlags
    /\ cursorIndex = 0
    /\ scrollOffset = 0
    /\ outputMode = "clipboard"
    /\ showHelp = FALSE
    /\ showIgnored = FALSE
    /\ searchMode = FALSE
    /\ searchQuery = <<>>
    /\ terminalHeight = 0
    /\ input = NoInput
    /\ pc = "build"
    /\ result = NoResult
    /\ terminal = [raw |-> FALSE, screen |-> "shell"]
    /\ call = NoCall
    /\ ret = NoReturn
    /\ effects = <<>>

\* The initial buildTree returns items: raw mode is set, the loop starts.
InitialBuild ==
    /\ pc = "build"
    /\ tree' = Flags(BuiltTree[showIgnored].node)
    /\ terminal' = [terminal EXCEPT !.raw = TRUE]
    /\ UNCHANGED others
    /\ pc' = "render"
    /\ UNCHANGED <<cursorIndex, scrollOffset, outputMode, showHelp, showIgnored,
                   searchMode, searchQuery, terminalHeight, input, result>>

\* The initial buildTree returns [] (its walk threw): "No files found",
\* Deno.exit(1).
InitialBuildEmpty ==
    /\ pc = "build"
    /\ tree' = EmptyFlags
    /\ pc' = "exited"
    /\ result' = [kind |-> "exit", code |-> 1]
    /\ UNCHANGED <<cursorIndex, scrollOffset, outputMode, showHelp, showIgnored,
                   searchMode, searchQuery, terminalHeight, input, terminal>>
    /\ UNCHANGED others

\* 'i' when the walk of the rebuild throws: buildTree returns [].
KeyIgnoredWalkFails ==
    /\ pc = "read" /\ ~searchMode
    /\ input' = "i"
    /\ showIgnored' = ~showIgnored
    /\ tree' = EmptyFlags
    /\ cursorIndex' = 0
    /\ scrollOffset' = 0
    /\ pc' = "render"
    /\ UNCHANGED <<outputMode, showHelp, searchMode, searchQuery,
                   terminalHeight, result, terminal>>
    /\ UNCHANGED others

\* Something called in the loop throws (console.log, stdin.read, the git
\* command of a rebuild): control leaves the try block with the error.
LoopThrows ==
    /\ pc \in {"render", "read"}
    /\ pc' = "done"
    /\ result' = [kind |-> "error"]
    /\ UNCHANGED <<tree, cursorIndex, scrollOffset, outputMode, showHelp,
                   showIgnored, searchMode, searchQuery, terminalHeight, input,
                   terminal>>
    /\ UNCHANGED others

\* Variant: a finally block that clears the screen and forgets raw mode.
FinallyStillRaw ==
    /\ pc = "done"
    /\ terminal' = [terminal EXCEPT !.screen = "cleared"]
    /\ UNCHANGED others
    /\ pc' = "returned"
    /\ UNCHANGED <<tree, cursorIndex, scrollOffset, outputMode, showHelp,
                   showIgnored, searchMode, searchQuery, terminalHeight, input,
                   result>>

\* The finally block, run on every way out of the try block; after it the
\* value is returned or the error propagates.
Finally ==
    /\ pc = "done"
    /\ terminal' = [raw |-> FALSE, screen |-> "cleared"]
    /\ UNCHANGED others
    /\ pc' = "returned"
    /\ UNCHANGED <<tree, cursorIndex, scrollOffset, outputMode, showHelp,
                   showIgnored, searchMode, searchQuery, terminalHeight, input,
                   result>>

Next ==
    \/ Render
    \/ ReadEOF
    \/ SearchExit
    \/ SearchBackspace
    \/ SearchType
    \/ SearchOther
    \/ KeyQuit
    \/ KeyEnter
    \/ KeySlash
    \/ KeyEscape
    \/ KeyOutput
    \/ KeyHelp
    \/ KeyIgnored
    \/ KeySpace
    \/ KeyToggleAll
    \/ KeyUp
    \/ KeyDown
    \/ KeyLeft
    \/ KeyRight
    \/ KeyExpandAll
    \/ KeyCollapseAll
    \/ KeyNextFolder
    \/ KeyPrevFolder
    \/ KeyOther
    \/ KeyIgnoredWalkFails
    \/ LoopThrows
    \/ Finally

Spec == Init /\ [][Next]_vars

\* Selection sessions: the keys that select, move, fold and filter, on a
\* terminal whose size is the fallback (no row of the trees in use is ever
\* scrolled away).  The session ends by quit or by the end of stdin.
NextSelect ==
    \/ RenderFallback
    \/ ReadEOF
    \/ SearchExit
    \/ SearchBackspace
    \/ SearchType
    \/ SearchOther
    \/ KeyQuit
    \/ KeySlash
    \/ KeyEscape
    \/ KeyIgnored
    \/ KeySpace
    \/ KeyToggleAll
    \/ KeyUp
    \/ KeyDown
    \/ KeyLeft
    \/ KeyRight
    \/ KeyExpandAll
    \/ KeyCollapseAll
    \/ KeyNextFolder
    \/ KeyPrevFolder
    \/ KeyOther

SpecSelect == Init /\ [][NextSelect]_vars

\* Confirming sessions: select, filter, choose the output mode, confirm.
NextConfirm ==
    \/ RenderFallback
    \/ ReadEOF
    \/ SearchExit
    \/ SearchBackspace
    \/ SearchType
    \/ KeyQuit
    \/ KeyEnter
    \/ KeySlash
    \/ KeyEscape
    \/ KeyOutput
    \/ KeySpace
    \/ KeyToggleAll
    \/ KeyUp
    \/ KeyDown
    \/ KeyLeft
    \/ KeyRight

SpecConfirm == Init /\ [][NextConfirm]_vars

\* Whole sessions, from the initial build to the return: short ones, with
\* the failures of the environment.
NextSession ==
    \/ InitialBuild
    \/ InitialBuildEmpty
    \/ RenderFallback
    \/ ReadEOF
    \/ SearchExit
    \/ SearchType
    \/ KeyQuit
    \/ KeyEnter
    \/ KeySlash
    \/ KeyIgnored
    \/ KeyIgnoredWalkFails
    \/ KeySpace
    \/ KeyUp
    \/ KeyDown
    \/ LoopThrows
    \/ Finally

SpecSession == InitSession /\ [][NextSession]_vars

\* Viewport sessions: the keys that move the cursor or change the rows, on a
\* terminal of any size; nothing is selected.
NextView ==
    \/ Render
    \/ ReadEOF
    \/ SearchExit
    \/ SearchBackspace
    \/ SearchType
    \/ SearchOther
    \/ KeyQuit
    \/ KeySlash
    \/ KeyEscape
    \/ KeyHelp
    \/ KeyIgnored
    \/ KeyUp
    \/ KeyDown
    \/ KeyLeft
    \/ KeyRight
    \/ KeyExpandAll
    \/ KeyCollapseAll
    \/ KeyNextFolder
    \/ KeyPrevFolder
    \/ KeyOther

SpecView == Init /\ [][NextView]_vars

-----------------------------------------------------------------------------
(* main, interactive mode: what the program does with the value            *)
(* runInteractive returns.  effects lists what main has written, read and  *)
(* run, in order; call holds the locals of main (files, options).          *)

Effect(kind, arg) == [kind |-> kind, arg |-> arg]

\* The value of --output given on the command line, or "" when absent.
OutputPaths == {"", "o.txt"}

\* What prompt("Output file path:") returns; "" stands for null or an empty
\* line.
PromptAnswers == {"", "p.txt"}

\* Variant: only the cancelled result counts as no selection.
MainInteractiveNullOnly ==
    /\ pc = "returned" /\ result.kind \in {"null", "result"}
    /\ \E optPath \in OutputPaths, answer \in PromptAnswers :
          IF result.kind = "null"
          THEN /\ effects' = effects \o << Effect("stderr", "No files selected."),
                                           Effect("exit", "1") >>
               /\ pc' = "exited"
               /\ call' = call
          ELSE IF result.outputMode = "file" /\ optPath = "" /\ answer = ""
          THEN /\ effects' = effects \o << Effect("prompt", "Output file path:"),
                                           Effect("stderr", "No output path provided."),
                                           Effect("exit", "1") >>
               /\ pc' = "exited"
               /\ call' = call
          ELSE /\ effects' = IF result.outputMode = "file" /\ optPath = ""
                             THEN effects \o << Effect("prompt", "Output file path:") >>
                             ELSE effects
               /\ call' = [fn |-> "main", files |-> result.files,
                           output |-> result.outputMode,
                           outputPath |-> IF optPath = "" THEN answer ELSE optPath]
               /\ pc' = "bundle"
    /\ UNCHANGED <<tree, cursorIndex, scrollOffset, outputMode, showHelp,
                   showIgnored, searchMode, searchQuery, terminalHeight, input,
                   result, terminal, ret>>

\* main after runInteractive has returned: no selection ends the process;
\* otherwise the files and the output mode go into the options, and the
\* path is asked for when the mode is file and no path was given.
MainInteractive ==
    /\ pc = "returned" /\ result.kind \in {"null", "result"}
    /\ \E optPath \in OutputPaths, answer \in PromptAnswers :
          IF result.kind = "null" \/ Len(result.files) = 0
          THEN /\ effects' = effects \o << Effect("stderr", "No files selected."),
                                           Effect("exit", "1") >>
               /\ pc' = "exited"
               /\ call' = call
          ELSE IF result.outputMode = "file" /\ optPath = "" /\ answer = ""
          THEN /\ effects' = effects \o << Effect("prompt", "Output file path:"),
                                           Effect("stderr", "No output path provided."),
                                           Effect("exit", "1") >>
               /\ pc' = "exited"
               /\ call' = call
          ELSE /\ effects' = IF result.outputMode = "file" /\ optPath = ""
                             THEN effects \o << Effect("prompt", "Output file path:") >>
                             ELSE effects
               /\ call' = [fn |-> "main", files |-> result.files,
                           output |-> result.outputMode,
                           outputPath |-> IF optPath = "" THEN answer ELSE optPath]
               /\ pc' = "bundle"
    /\ UNCHANGED <<tree, cursorIndex, scrollOffset, outputMode, showHelp,
                   showIgnored, searchMode, searchQuery, terminalHeight, input,
                   result, terminal, ret>>

\* An error thrown by runInteractive reaches the catch block of main.
MainError ==
    /\ pc = "returned" /\ result.kind = "error"
    /\ effects' = effects \o << Effect("stderr", "Error:"), Effect("exit", "1") >>
    /\ pc' = "exited"
    /\ UNCHANGED <<tree, cursorIndex, scrollOffset, outputMode, showHelp,
                   showIgnored, searchMode, searchQuery, terminalHeight, input,
                   result, terminal, call, ret>>

\* bundleFiles(files): each file is read, in the order of the list; the
\* content is kept as the list of the paths bundled.
MainBundle ==
    /\ pc = "bundle"
    /\ effects' = effects \o [i \in 1..Len(call.files) |->
                                 Effect("read", JoinPath(call.files[i].absolutePath))]
    /\ ret' = [kind |-> "content",
               paths |-> [i \in 1..Len(call.files) |-> call.files[i].relativePath]]
    /\ pc' = "output"
    /\ UNCHANGED <<tree, cursorIndex, scrollOffset, outputMode, showHelp,
                   showIgnored, searchMode, searchQuery, terminalHeight, input,
                   result, terminal, call>>

\* outputBundle(content, options), then the tree report unless --no-tree;
\* a failing pbcopy throws into the catch block of main.
MainOutput ==
    /\ pc = "output"
    /\ \E showTree \in BOOLEAN, copied \in BOOLEAN :
          LET written == CASE call.output = "stdout" -> Effect("stdout", "content")
                           [] call.output = "file" -> Effect("writeFile", call.outputPath)
                           [] call.output = "clipboard" -> Effect("pbcopy", "content")
          IN  IF call.output = "clipboard" /\ ~copied
              THEN /\ effects' = effects \o << written, Effect("stderr", "Error:"),
                                               Effect("exit", "1") >>
                   /\ pc' = "exited"
              ELSE /\ effects' = effects \o << written >> \o
                                     (IF showTree THEN << Effect("stderr", "report") >>
                                      ELSE <<>>)
                   /\ pc' = "finished"
    /\ UNCHANGED <<tree, cursorIndex, scrollOffset, outputMode, showHelp,
                   showIgnored, searchMode, searchQuery, terminalHeight, input,
                   result, terminal, call, ret>>

\* Whole runs of the program in interactive mode.
NextMain ==
    \/ NextSession
    \/ KeyOutput
    \/ MainInteractive
    \/ MainError
    \/ MainBundle
    \/ MainOutput

SpecMain == InitSession /\ [][NextMain]_vars

-----------------------------------------------------------------------------
(* Functions called on their own.  The initial predicate draws the         *)
(* arguments and the environment of one call; the action makes the call.   *)

\* The variables of runInteractive, at rest while a function is called.
SessionAtRest ==
    /\ tree = EmptyFlags
    /\ cursorIndex = 0
    /\ scrollOffset = 0
    /\ outputMode = "clipboard"
    /\ showHelp = FALSE
    /\ showIgnored = FALSE
    /\ searchMode = FALSE
    /\ searchQuery = <<>>
    /\ terminalHeight = 0
    /\ input = NoInput
    /\ result = NoResult
    /\ terminal = [raw |-> FALSE, screen |-> "shell"]
    /\ effects = <<>>

\* The walk of a directory that lacks some of the top-level entries.
WalkWithout(names) ==
    SelectSeq(WalkEntries, LAMBDA e : e.path = <<>> \/ e.path[1] \notin names)

Walks == { WalkWithout(names) : names \in SUBSET {N_src, N_tmp, N_root} }

\* Paths git may list: files of the walk, and a file deleted from disk.
ListablePaths ==
    { <<N_root>>, <<N_src, N_main>>, <<N_src, N_lib, N_x>>, <<N_lib, N_x>> }

GitResults ==
    { [outcome |-> "listed", files |-> f] : f \in SUBSET ListablePaths }
    \cup { [outcome |-> o, files |-> {}] : o \in {"nonzero", "throws"} }

InitBuildTree ==
    /\ SessionAtRest
    /\ pc = "call"
    /\ call \in [fn : {"buildTree"}, walk : Walks, git : GitResults,
                  showIgnored : BOOLEAN]
    /\ ret = NoReturn

\* buildTree(rootPath, cwd, showIgnored) in a directory where the walk
\* and the git lookup come to call.walk and call.git.
BuildTreeCall ==
    /\ pc = "call" /\ call.fn = "buildTree"
    /\ ret' = AssembleTree(CollectEntriesWith(call.walk, call.git,
                                              call.showIgnored))
    /\ pc' = "called"
    /\ UNCHANGED <<tree, cursorIndex, scrollOffset, outputMode, showHelp,
                   showIgnored, searchMode, searchQuery, terminalHeight, input,
                   result, terminal, call, effects>>

NextBuildTree == BuildTreeCall

SpecBuildTree == InitBuildTree /\ [][NextBuildTree]_vars

\* The directories runInteractive can be given as rootPath: the working
\* directory, a child of it, a directory two levels down.
RootPaths == { <<>>, <<N_src>>, <<N_src, N_lib>> }

\* walk(absoluteRoot): the root itself and what lies below it.
WalkFrom(walk, root) == SelectSeq(walk, LAMBDA e : IsPrefix(root, e.path))

\* buildTree called on a root that exists, in or below the working directory.
InitBuildRoot ==
    /\ SessionAtRest
    /\ pc = "call"
    /\ \E base \in Walks, root \in RootPaths :
          /\ \E i \in 1..Len(base) : base[i].path = root
          /\ call \in [fn : {"buildTree"}, root : {root},
                        walk : {WalkFrom(base, root)}, git : GitResults,
                        showIgnored : BOOLEAN]
    /\ ret = NoReturn

NextBuildRoot == BuildTreeCall

SpecBuildRoot == InitBuildRoot /\ [][NextBuildRoot]_vars

\* The paths below the root that a walk can yield.
ItemPaths ==
    { WalkEntries[i].path : i \in 1..Len(WalkEntries) } \ { <<>> }

\* The unfiltered tree of a walk, with the items of `selected` selected.
TreeSelecting(walk, selected) ==
    LET built == AssembleTree(CollectEntriesWith(walk, GitListing, TRUE))
    IN  [ items |-> built.items,
          node  |-> [n \in DOMAIN built.node |->
                        [built.node[n] EXCEPT
                            !.selected = built.node[n].path \in selected]] ]

InitSelectAll ==
    /\ SessionAtRest
    /\ pc = "call"
    /\ call \in [fn : {"toggleAll"}, walk : Walks, selected : SUBSET ItemPaths]
    /\ ret = NoReturn

\* toggleAll(tree, true); getSelectedFiles(tree, cwd) on a tree in any
\* selection state.
SelectAllCall ==
    /\ pc = "call" /\ call.fn = "toggleAll"
    /\ LET t == TreeSelecting(call.walk, call.selected)
           node == ToggleAll(t.node, t.items, TRUE)
       IN  ret' = [ tree  |-> [items |-> t.items, node |-> node],
                    files |-> GetSelectedFiles(node, t.items) ]
    /\ pc' = "called"
    /\ UNCHANGED <<tree, cursorIndex, scrollOffset, outputMode, showHelp,
                   showIgnored, searchMode, searchQuery, terminalHeight, input,
                   result, terminal, call, effects>>

NextSelectAll == SelectAllCall

SpecSelectAll == InitSelectAll /\ [][NextSelectAll]_vars

(* discoverFiles *)

N_out == <<"o", "u", "t">>
N_zip == <<"a", ".", "z", "i", "p">>
N_bare == <<"L">>

\* The files the sources of discoverFiles list, as paths below cwd: three
\* sources, a file in a skipped directory, an archive, a file without
\* extension.
DiscoverPaths ==
    { <<N_root>>, <<N_src, N_main>>, <<N_tmp, N_x>>, <<N_out, N_x>>,
      <<N_zip>>, <<N_bare>> }

\* SKIP_DIRECTORIES, BINARY_EXTENSIONS and knownTextExtensions: the members
\* that can be spelled with the characters in use.
SkipDirectories == { N_out }
BinaryExtensions ==
    { <<"z", "i", "p">>, <<"t", "a", "r">>, <<"b", "i", "n">>, <<"a">>,
      <<"l", "i", "b">> }
KnownTextExtensions ==
    { <<"t", "s">>, <<"t", "s", "x">>, <<"t", "x", "t">>, <<"c">>,
      <<"c", "s", "s">>, <<"r", "s">> }

\* getExtension(filePath): extname without its dot; a dotfile's name
\* without its dot; no special file name is in use.
GetExtension(path) ==
    LET name == path[Len(path)]
        dots == {i \in 2..Len(name) : name[i] = "."}
    IN  IF dots # {}
        THEN SubSeq(name, (CHOOSE i \in dots : \A j \in dots : j <= i) + 1,
                    Len(name))
        ELSE IF name[1] = "." THEN Tail(name) ELSE <<>>

IsBinaryExtension(extension) == ToLowerCase(extension) \in BinaryExtensions

\* filterFilesSync, with no include, exclude or match option.
FilterFilesSync(files, options) ==
    LET keep(path) ==
            /\ ~ \E i \in 1..Len(path) : path[i] \in SkipDirectories
            /\ options.extensions # {} =>
                   ToLowerCase(GetExtension(path)) \in options.extensions
            /\ ~ (options.skipBinary /\ IsBinaryExtension(GetExtension(path)))
        kept == SelectSeq(files, keep)
    IN  [i \in 1..Len(kept) |->
            [absolutePath |-> kept[i],
             relativePath |-> JoinPath(kept[i]),
             extension    |-> GetExtension(kept[i])]]

\* filterFiles: the second pass reads the files of unknown extension;
\* nulBytes tells whether such a file holds a null byte.
FilterFiles(files, options, nulBytes) ==
    LET candidates == FilterFilesSync(files, options)
    IN  IF options.skipBinary
        THEN SelectSeq(candidates,
                       LAMBDA f : \/ ToLowerCase(f.extension) \in KnownTextExtensions
                                  \/ ~nulBytes)
        ELSE candidates

\* Variant: the filtered files as they come, without the sort.
SortByRelativePathNot(files) == files

\* filteredFiles.sort((a, b) => a.relativePath.localeCompare(b.relativePath))
SortByRelativePath(files) ==
    LET sorted == SortByKey([i \in 1..Len(files) |->
                               <<files[i].relativePath, files[i]>>])
    IN  [i \in 1..Len(sorted) |-> sorted[i][2]]

\* Longest list a source of discoverFiles returns.
MaxListed == 3

\* The lists a source can return: any files in any order, repeated when
\* roots overlap.
RECURSIVE ListingsOf(_)
ListingsOf(n) ==
    IF n = 0 THEN { <<>> }
    ELSE LET shorter == ListingsOf(n - 1)
         IN  shorter \cup { Append(l, p) : l \in shorter, p \in DiscoverPaths }

InitDiscover ==
    /\ SessionAtRest
    /\ pc = "call"
    /\ call \in [fn : {"discoverFiles"},
                  mode : {"staged", "changed", "gitTracked", "roots"},
                  listing : ListingsOf(MaxListed),
                  extensions : { {}, { <<"t", "s">> } },
                  skipBinary : BOOLEAN,
                  nulBytes : BOOLEAN]
    /\ ret = NoReturn

\* discoverFiles(options, cwd): the source chosen by the options returns
\* call.listing; the list is filtered, then sorted.
DiscoverFilesCall ==
    /\ pc = "call" /\ call.fn = "discoverFiles"
    /\ LET filteredFiles == FilterFiles(call.listing,
                                       [extensions |-> call.extensions,
                                        skipBinary |-> call.skipBinary],
                                       call.nulBytes)
       IN  ret' = SortByRelativePath(filteredFiles)
    /\ pc' = "called"
    /\ UNCHANGED <<tree, cursorIndex, scrollOffset, outputMode, showHelp,
                   showIgnored, searchMode, searchQuery, terminalHeight, input,
                   result, terminal, call, effects>>

NextDiscover == DiscoverFilesCall

SpecDiscover == InitDiscover /\ [][NextDiscover]_vars

-----------------------------------------------------------------------------
(* Properties.  Helpers first: they describe trees without using the       *)
(* functions under test.                                                   *)

\* The live item a row stands for (a copy -n stands for n).
LiveOf(r) == IF r < 0 THEN -r ELSE r

\* r and everything below it, following children lists.
RECURSIVE Subtree(_, _)
Subtree(node, r) ==
    {r} \cup UNION { Subtree(node, node[r].children[i]) :
                     i \in 1..Len(node[r].children) }

LiveLeaves == {n \in DOMAIN Tree.node : ~Tree.node[n].isDirectory}

SelectedLeaves == {n \in LiveLeaves : Tree.node[n].selected}

Elems(seq) == {seq[i] : i \in 1..Len(seq)}

\* Letters that differ at most by case.
CasePairs == { <<"l", "L">>, <<"m", "M">>, <<"p", "P">>, <<"t", "T">> }

SameLetter(a, b) == a = b \/ <<a, b>> \in CasePairs \/ <<b, a>> \in CasePairs

ContainsIgnoringCase(s, q) ==
    \E k \in 0..(Len(s) - Len(q)) : \A i \in 1..Len(q) : SameLetter(s[k + i], q[i])

MatchesIgnoringCase(n, q) ==
    \/ ContainsIgnoringCase(Tree.node[n].name, q)
    \/ ContainsIgnoringCase(Tree.node[n].relativePath, q)

\* C1: every directory of the live tree that has at least one child is
\* selected if and only if each of its direct children is selected, in every
\* state of a session (after space and toggle-all, with or without a query).
C1_SelectionConsistent ==
    \A d \in DOMAIN Tree.node :
        LET kids == Tree.node[d].children
        IN  (Tree.node[d].isDirectory /\ kids # <<>>) =>
                (Tree.node[d].selected <=>
                    \A i \in 1..Len(kids) : Tree.node[kids[i]].selected)

\* C1 witness: under an active query, a selected directory with children
\* lies inside an unselected directory.
C1_Witness ==
    /\ searchQuery # <<>>
    /\ \E d \in DOMAIN Tree.node :
        /\ Tree.node[d].isDirectory /\ Tree.node[d].children # <<>>
        /\ Tree.node[d].selected
        /\ Tree.node[d].parent # 0
        /\ ~Tree.node[Tree.node[d].parent].selected

\* C2: toggleSelection(node, v) leaves node and every item below it (in
\* expanded and in collapsed directories alike) with selected = v, or with
\* the negation of node's former flag when v is not given; for every item of
\* the tree being shown, live or copy.
C2_ToggleSetsSubtree ==
    LET ft == FilteredTree
    IN  \A r \in DOMAIN ft.node : \A v \in {Undefined, <<TRUE>>, <<FALSE>>} :
            LET after == ToggleSelection(ft.node, r, v)
                final == IF v = Undefined THEN ~ft.node[r].selected ELSE v[1]
            IN  \A d \in Subtree(ft.node, r) : after[d].selected = final

\* C2 witness: a collapsed directory with a collapsed directory inside was
\* toggled on: everything below it is selected, another root is not.
C2_Witness ==
    /\ pc = "render" /\ input = " "
    /\ \E d \in DOMAIN Tree.node :
        /\ Tree.node[d].isDirectory /\ ~Tree.node[d].expanded
        /\ \E e \in Subtree(Tree.node, d) \ {d} :
              Tree.node[e].isDirectory /\ ~Tree.node[e].expanded
              /\ Tree.node[e].children # <<>>
        /\ \A e \in Subtree(Tree.node, d) : Tree.node[e].selected
    /\ \E n \in DOMAIN Tree.node : ~Tree.node[n].selected

\* C3: toggleSelection(node, v) applied twice in a row gives the same
\* selected flags, on every item, as applied once.
C3_ToggleIdempotent ==
    LET ft == FilteredTree
    IN  \A r \in DOMAIN ft.node : \A v \in BOOLEAN :
            LET once  == ToggleSelection(ft.node, r, <<v>>)
                twice == ToggleSelection(once, r, <<v>>)
            IN  \A n \in DOMAIN ft.node : twice[n].selected = once[n].selected

\* C3 witness: a filtered view showing a directory row and a leaf row below
\* it (toggle-all then calls toggleSelection on that leaf twice with the
\* same value), its leaf rows selected, some other leaf not.
C3_Witness ==
    /\ pc = "render" /\ input = "a" /\ searchQuery # <<>>
    /\ \E i, j \in 1..Len(FlatItems) :
        /\ FlatItems[i] < 0 /\ FlatItems[j] > 0
        /\ Tree.node[FlatItems[j]].parent = -FlatItems[i]
    /\ \A i \in 1..Len(FlatItems) :
        FlatItems[i] > 0 => Tree.node[FlatItems[i]].selected
    /\ LiveLeaves \ SelectedLeaves # {}

\* C4: a session ended by confirm returns exactly the selected non-directory
\* items of the whole live tree, each once, in the order of their relative
\* paths, with the output mode current at that moment.
C4_ConfirmResult ==
    (pc = "done" /\ result.kind = "result") =>
        LET files == result.files
        IN  /\ Len(files) = Cardinality(SelectedLeaves)
            /\ { files[i].relativePath : i \in 1..Len(files) } =
                   { Tree.node[n].relativePath : n \in SelectedLeaves }
            /\ \A i \in 1..Len(files) : \E n \in SelectedLeaves :
                   /\ files[i].relativePath = Tree.node[n].relativePath
                   /\ files[i].absolutePath = Tree.node[n].path
            /\ \A i, j \in 1..Len(files) :
                   i < j => LocaleCompare(files[i].relativePath,
                                          files[j].relativePath) < 0
            /\ result.outputMode = outputMode

\* C4 witness: confirmed with a query active, output mode file, several
\* files selected, one of them not among the rows shown.
C4_Witness ==
    /\ pc = "done" /\ result.kind = "result"
    /\ searchQuery # <<>>
    /\ outputMode = "file"
    /\ Len(result.files) >= 2
    /\ SelectedLeaves \ Elems(FlatItems) # {}

\* C5 (as amended): with a non-empty query, toggle-all computes
\* value = NOT (every visible row is selected) and gives that value to every
\* visible leaf; no leaf outside the filtered view changes.
C5_ToggleAllVisibleLeaves ==
    [][ (pc = "read" /\ ~searchMode /\ searchQuery # <<>> /\ input' = "a") =>
          LET ft == FilteredTree
              rows == FlattenTree(ft.node, ft.items)
              value == ~(\A i \in 1..Len(rows) : ft.node[rows[i]].selected)
              after == TreeOf(tree', showIgnored).node
          IN  \A n \in LiveLeaves :
                  after[n].selected =
                      IF n \in Elems(rows) THEN value ELSE Tree.node[n].selected
      ]_vars

\* C5 witness: after toggle-all under a query the visible leaf is selected
\* and a leaf outside the view is not.
C5_Witness ==
    /\ pc = "render" /\ input = "a" /\ searchQuery # <<>> /\ ~searchMode
    /\ \E n \in SelectedLeaves : n \in Elems(FlatItems)
    /\ \E n \in LiveLeaves \ SelectedLeaves : n \notin Elems(FlatItems)
    /\ \A i \in 1..Len(FlatItems) :
          FlatItems[i] > 0 => Tree.node[FlatItems[i]].selected

\* C5 as stated: with a non-empty query, after toggle-all every visible row
\* (directory rows included) is selected if some visible row was not, and
\* unselected if all were.
C5_ToggleAllVisibleRows ==
    [][ (pc = "read" /\ ~searchMode /\ searchQuery # <<>> /\ input' = "a") =>
          LET ft == FilteredTree
              rows == FlattenTree(ft.node, ft.items)
              value == ~(\A i \in 1..Len(rows) : ft.node[rows[i]].selected)
              after == TreeOf(tree', showIgnored).node
          IN  \A i \in 1..Len(rows) : after[LiveOf(rows[i])].selected = value
      ]_vars

\* C6: with an empty query, toggle-all leaves every item of the tree
\* unselected if every item was selected, and selected otherwise.
C6_ToggleAllWholeTree ==
    [][ (pc = "read" /\ ~searchMode /\ searchQuery = <<>> /\ input' = "a") =>
          LET all == \A n \in DOMAIN Tree.node : Tree.node[n].selected
              after == TreeOf(tree', showIgnored).node
          IN  \A n \in DOMAIN Tree.node : after[n].selected = ~all
      ]_vars

\* C6 witness: no query, every item of the tree with the ignored (empty)
\* directory selected.
C6_Witness ==
    /\ pc = "render" /\ input = "a" /\ searchQuery = <<>> /\ showIgnored
    /\ \A n \in DOMAIN Tree.node : Tree.node[n].selected

\* C7: with a non-empty query the rows are exactly the leaves that match it
\* ignoring case (in name or relative path) and the directories that match
\* it or contain a match; each once, directories as expanded copies,
\* whatever the live expanded flags are.
C7_FilteredRows ==
    searchQuery # <<>> =>
        LET ft == FilteredTree
            rows == FlattenTree(ft.node, ft.items)
            retained(n) ==
                \/ MatchesIgnoringCase(n, searchQuery)
                \/ /\ Tree.node[n].isDirectory
                   /\ \E d \in Subtree(Tree.node, n) \ {n} :
                          MatchesIgnoringCase(d, searchQuery)
        IN  /\ { LiveOf(rows[i]) : i \in 1..Len(rows) } =
                   { n \in DOMAIN Tree.node : retained(n) }
            /\ Cardinality(Elems(rows)) = Len(rows)
            /\ \A i \in 1..Len(rows) :
                   /\ Tree.node[LiveOf(rows[i])].isDirectory <=> rows[i] < 0
                   /\ rows[i] < 0 => ft.node[rows[i]].expanded

\* C7 witness: query "main" over src.ts, src/main.ts, src/lib/x.ts with
\* every directory collapsed shows src/ and main.ts, and nothing else.
C7_Witness ==
    /\ pc = "read"
    /\ searchQuery = <<"m", "a", "i", "n">>
    /\ \A n \in DOMAIN Tree.node : ~Tree.node[n].expanded
    /\ Len(FlatItems) = 2
    /\ FilteredTree.node[FlatItems[1]].name = N_src
    /\ FilteredTree.node[FlatItems[2]].name = N_main

\* C8 as stated: the left key on an expanded directory row makes the
\* directory's children absent from the rows of the next frame, and on any
\* other row whose item has a parent moves the cursor to the parent's row;
\* with or without a query.
C8_LeftCollapsesOrMovesToParent ==
    [][ (pc = "read" /\ ~searchMode /\ input' = "left"
           /\ HasItem(FlatItems, cursorIndex)) =>
          LET ft == FilteredTree
              rows == FlattenTree(ft.node, ft.items)
              row == ItemAt(rows, cursorIndex)
              nextTree == FilteredTreeOf(TreeOf(tree', showIgnored), searchQuery)
              nextRows == FlattenTree(nextTree.node, nextTree.items)
          IN  IF ft.node[row].isDirectory /\ ft.node[row].expanded
              THEN \A i \in 1..Len(nextRows) :
                       Tree.node[LiveOf(nextRows[i])].parent # LiveOf(row)
              ELSE ft.node[row].parent # 0 =>
                       /\ HasItem(rows, cursorIndex')
                       /\ LiveOf(ItemAt(rows, cursorIndex')) = ft.node[row].parent
      ]_vars

\* C9 as stated: at every rendered frame the footer's count is the number of
\* selected leaves of the live tree.
C9_FooterCountsEachSelectedLeafOnce ==
    pc = "read" => SelectedCount = Cardinality(SelectedLeaves)

C11_UpDownClamped ==
    [][ (pc = "read" /\ ~searchMode /\ input' \in {"up", "down"}) =>
          /\ cursorIndex' >= 0
          /\ Len(FlatItems) > 0 => cursorIndex' <= Len(FlatItems) - 1
      ]_vars

\* The items of the tree t: its roots and everything below them.
TreeNodes(t) == UNION { Subtree(t.node, t.items[i]) : i \in 1..Len(t.items) }

\* rows lists its items in depth-first pre-order of t: no item twice, every
\* row a root or a child of an earlier row, and for two siblings the rows
\* below the first all come before the second.
IsPreOrder(t, rows) ==
    LET pos(x) == CHOOSE i \in 1..Len(rows) : rows[i] = x
        listed == Elems(rows)
        siblingLists == {t.items} \cup {t.node[d].children : d \in listed}
    IN  /\ Cardinality(listed) = Len(rows)
        /\ \A x \in listed :
              \/ x \in Elems(t.items)
              \/ \E d \in listed : x \in Elems(t.node[d].children) /\ pos(d) < pos(x)
        /\ \A L \in siblingLists : \A i, j \in 1..Len(L) :
              (i < j /\ L[j] \in listed) =>
                  /\ L[i] \in listed
                  /\ \A y \in Subtree(t.node, L[i]) \cap listed : pos(y) < pos(L[j])

\* No row is a child of a collapsed directory of t; every root is a row.
NoChildOfCollapsed(t, rows) ==
    /\ Elems(t.items) \subseteq Elems(rows)
    /\ \A d \in TreeNodes(t) :
          (t.node[d].isDirectory /\ ~t.node[d].expanded) =>
              \A i \in 1..Len(t.node[d].children) :
                  t.node[d].children[i] \notin Elems(rows)

\* C12 (as amended): flattenTree lists the tree being shown in depth-first
\* pre-order, never lists a child of a collapsed directory, and lists every
\* child of every expanded directory that is itself listed.
C12_FlattenPreOrder ==
    LET t == FilteredTree
        rows == FlattenTree(t.node, t.items)
    IN  /\ IsPreOrder(t, rows)
        /\ NoChildOfCollapsed(t, rows)
        /\ \A d \in Elems(rows) :
              (t.node[d].isDirectory /\ t.node[d].expanded) =>
                  Elems(t.node[d].children) \subseteq Elems(rows)

\* C12 witness: an expanded directory inside an expanded directory, its
\* file listed at depth 2 before the root file; no query.
C12_Witness ==
    /\ pc = "read" /\ searchQuery = <<>>
    /\ \E i, j \in 1..Len(FlatItems) :
          /\ i < j
          /\ Tree.node[FlatItems[i]].depth = 2
          /\ Tree.node[FlatItems[j]].depth = 0
    /\ \E n \in DOMAIN Tree.node : Tree.node[n].isDirectory /\ ~Tree.node[n].expanded

\* C12 as stated: the same, with every child of every expanded directory of
\* the tree listed, at every depth.
C12_FlattenListsAllExpanded ==
    LET t == FilteredTree
        rows == FlattenTree(t.node, t.items)
    IN  /\ IsPreOrder(t, rows)
        /\ NoChildOfCollapsed(t, rows)
        /\ \A d \in TreeNodes(t) :
              (t.node[d].isDirectory /\ t.node[d].expanded) =>
                  Elems(t.node[d].children) \subseteq Elems(rows)

\* Indexes (0-based) of the directory rows among rows.
DirRows(t, rows) == {i \in 0..(Len(rows) - 1) : t.node[rows[i + 1]].isDirectory}

\* i is a directory row at the least cyclic distance from `from` in the
\* direction dir (1: forward, -1: backward); `from` itself is the farthest.
IsNearestDir(t, rows, from, i, dir) ==
    LET steps(k) == (dir * (k - from) - 1) % Len(rows)
    IN  /\ i \in DirRows(t, rows)
        /\ \A k \in DirRows(t, rows) : steps(i) <= steps(k)

\* C13: jump-next (jump-prev) leaves the cursor on the nearest directory row
\* after (before) it, wrapping at either end, on the cursor's own row when
\* that is the only directory row, and where it was when no row is a
\* directory.
C13_JumpToNearestFolder ==
    [][ (pc = "read" /\ ~searchMode /\ input' \in {"f", "F"}) =>
          LET t == FilteredTree
              rows == FlattenTree(t.node, t.items)
          IN  IF DirRows(t, rows) = {}
              THEN cursorIndex' = cursorIndex
              ELSE IsNearestDir(t, rows, cursorIndex, cursorIndex',
                                IF input' = "f" THEN 1 ELSE -1)
      ]_vars

\* C13 witness: jump-next has wrapped from the last of several directory
\* rows to the first row.
C13_Witness ==
    /\ pc = "render" /\ input = "f"
    /\ cursorIndex = 0
    /\ Cardinality(DirRows(FilteredTree, FlatItems)) >= 2

\* C14: the session starts in Browsing; '/' in Browsing enters SearchEntry
\* and leaves query, cursor, scroll and tree as they were; escape or confirm
\* in SearchEntry returns to Browsing and leaves the query as it was; no
\* other step changes the mode.
C14_ModeSwitches ==
    /\ ~searchMode
    /\ [][ IF pc = "read" /\ ~searchMode /\ input' = "/"
           THEN /\ searchMode'
                /\ UNCHANGED <<searchQuery, cursorIndex, scrollOffset, tree>>
           ELSE IF pc = "read" /\ searchMode /\ input' \in {"escape", "enter"}
           THEN /\ ~searchMode'
                /\ UNCHANGED searchQuery
           ELSE UNCHANGED searchMode
       ]_vars

\* C14 witness: SearchEntry was left by confirm and the query typed is kept.
C14_Witness ==
    /\ pc = "render" /\ input = "enter"
    /\ ~searchMode
    /\ searchQuery = <<"m", "a">>

\* q without its last character; the empty query stays empty.
IsQueryFront(q, front) ==
    /\ Len(front) = (IF Len(q) = 0 THEN 0 ELSE Len(q) - 1)
    /\ \A i \in 1..Len(front) : front[i] = q[i]

\* C15: in SearchEntry, backspace removes the last character of the query
\* (an empty query stays empty), a printable character is appended to it,
\* and either of them sets cursorIndex and scrollOffset to 0.
C15_SearchEditing ==
    [][ (pc = "read" /\ searchMode /\ input' \in PrintableChars \cup {"backspace"}) =>
          /\ IF input' = "backspace"
             THEN IsQueryFront(searchQuery, searchQuery')
             ELSE /\ Len(searchQuery') = Len(searchQuery) + 1
                  /\ IsQueryFront(searchQuery', searchQuery)
                  /\ searchQuery'[Len(searchQuery')] = input'
          /\ cursorIndex' = 0
          /\ scrollOffset' = 0
      ]_vars

\* C15 witness: backspace has cut a longer query down to "m" while rows are
\* shown on a terminal with one visible row.
C15_Witness ==
    /\ pc = "render" /\ input = "backspace"
    /\ searchQuery = <<"m">>
    /\ terminalHeight = ReservedRows + 1
    /\ cursorIndex = 0 /\ scrollOffset = 0

\* C16: a keystroke in SearchEntry never ends the session and never changes
\* selection, expansion, output mode, help flag, showIgnored or the tree; a
\* printable key (q, a, i and the other Browsing commands among them) is
\* appended to the query; a key that is not escape, confirm, backspace or
\* printable changes nothing at all.
C16_SearchEntryFrame ==
    [][ (pc = "read" /\ searchMode /\ input' # NoInput) =>
          /\ pc' = "render"
          /\ UNCHANGED <<tree, outputMode, showHelp, showIgnored, result>>
          /\ input' \in PrintableChars => searchQuery' = Append(searchQuery, input')
          /\ input' \notin PrintableChars \cup {"escape", "enter", "backspace"} =>
                UNCHANGED <<searchQuery, searchMode, cursorIndex, scrollOffset>>
      ]_vars

\* C16 witness: with files selected and a directory expanded, q was typed
\* in SearchEntry: it is the query, and the session goes on.
C16_Witness ==
    /\ pc = "render" /\ input = "q"
    /\ searchMode /\ searchQuery = <<"q">>
    /\ result = NoResult
    /\ \E n \in DOMAIN tree : tree[n].selected
    /\ \E n \in DOMAIN tree : tree[n].expanded

\* C17: escape in Browsing with a non-empty query empties the query and
\* sets cursorIndex and scrollOffset to 0; with an empty query it changes
\* nothing.  Tree and flags stay as they were in both cases.
C17_EscapeClearsQuery ==
    [][ (pc = "read" /\ ~searchMode /\ input' = "escape") =>
          /\ IF searchQuery # <<>>
             THEN searchQuery' = <<>> /\ cursorIndex' = 0 /\ scrollOffset' = 0
             ELSE UNCHANGED <<searchQuery, cursorIndex, scrollOffset>>
          /\ UNCHANGED <<tree, outputMode, showHelp, showIgnored, searchMode, result>>
      ]_vars

\* C17 witness: after an escape the query is empty and the cursor is still
\* on a later row of a scrolled view, a directory expanded.
C17_Witness ==
    /\ pc = "render" /\ input = "escape"
    /\ ~searchMode /\ searchQuery = <<>>
    /\ cursorIndex >= 2 /\ scrollOffset >= 2
    /\ \E n \in DOMAIN tree : tree[n].expanded

\* C18: the ignored-toggle key flips showIgnored, leaves a freshly built
\* tree (the ignored directory in it exactly when ignored files are shown)
\* with no item selected and no directory expanded, and sets cursorIndex and
\* scrollOffset to 0.
C18_IgnoredToggleRebuilds ==
    [][ (pc = "read" /\ ~searchMode /\ input' = "i") =>
          LET after == TreeOf(tree', showIgnored')
          IN  /\ showIgnored' = ~showIgnored
              /\ after.items = BuiltTree[showIgnored'].items
              /\ DOMAIN tree' = DOMAIN BuiltTree[showIgnored'].node
              /\ (\E n \in DOMAIN after.node : after.node[n].name = N_tmp)
                    <=> showIgnored'
              /\ \A n \in DOMAIN after.node :
                    ~after.node[n].selected /\ ~after.node[n].expanded
              /\ cursorIndex' = 0
              /\ scrollOffset' = 0
      ]_vars

\* C18 witness: the key was pressed under an active query and ignored files
\* are shown; nothing is selected or expanded.
C18_Witness ==
    /\ pc = "render" /\ input = "i"
    /\ showIgnored /\ searchQuery # <<>>
    /\ \A n \in DOMAIN tree : ~tree[n].selected /\ ~tree[n].expanded
    /\ \E n \in DOMAIN Tree.node : Tree.node[n].name = N_tmp

\* C19: once runInteractive is past the try block for good (value returned
\* or error propagating), whatever ended the session, stdin is not in raw
\* mode and the screen is cleared; raw mode is on all the while before.
C19_RawModeRestored ==
    /\ pc \in {"render", "read", "done"} => terminal.raw
    /\ pc = "returned" => ~terminal.raw /\ terminal.screen = "cleared"

\* C19 witness: the loop threw after a frame was shown with a file
\* selected, and the error has left runInteractive.
C19_Witness ==
    /\ pc = "returned" /\ result.kind = "error"
    /\ \E n \in DOMAIN tree : tree[n].selected
    /\ ~terminal.raw

\* C20 as stated: no frame is rendered and no key is read over an empty
\* tree; an empty buildTree result ends the session with a failure status.
C20_NoLoopOverEmptyTree ==
    /\ pc \in {"render", "read"} => Tree.items # <<>>
    /\ (pc = "exited" => result = [kind |-> "exit", code |-> 1])

\* The paths of the items of a tree.
PathsOf(t) == { t.node[n].path : n \in DOMAIN t.node }

\* C21: when the git lookup fails (exit code other than 0, or no git),
\* buildTree with showIgnored = false returns the tree it returns with
\* showIgnored = true: every entry of the walk below the root has its item.
C21_GitFailureMeansNoFilter ==
    (pc = "called" /\ call.fn = "buildTree" /\ ~call.showIgnored
        /\ call.git.outcome # "listed") =>
        /\ ret = AssembleTree(CollectEntriesWith(call.walk, call.git, TRUE))
        /\ PathsOf(ret) =
              { call.walk[i].path : i \in 1..Len(call.walk) } \ { <<>> }
        /\ (Len(call.walk) > 1 => ret.items # <<>>)

\* C21 witness: buildTree(showIgnored = false) has returned in a directory
\* that is not a repository and holds the directory TMP, which a listing
\* would have hidden; TMP is in the tree.
C21_Witness ==
    /\ pc = "called" /\ call.fn = "buildTree" /\ ~call.showIgnored
    /\ call.git.outcome = "nonzero"
    /\ <<N_tmp>> \in PathsOf(ret)
    /\ <<N_src, N_lib, N_x>> \in PathsOf(ret)

\* C22: in Browsing, a step that reads q or the interrupt byte leaves the
\* loop with the cancelled result, which carries no file list, whatever is
\* selected; a session that ended on one of these keys has that result.
C22_QuitCancels ==
    /\ [][(pc = "read" /\ ~searchMode /\ input' \in {"q", "ctrl-c"}) =>
            /\ pc' = "done"
            /\ result'.kind = "null"
            /\ "files" \notin DOMAIN result'
            /\ tree' = tree]_vars
    /\ [](pc = "done" /\ ~searchMode /\ input \in {"q", "ctrl-c"} =>
            result = Cancelled)

\* C22 witness: the interrupt byte ended a session in which a file was
\* selected and a query was active.
C22_Witness ==
    /\ pc = "done" /\ ~searchMode /\ input = "ctrl-c"
    /\ result = Cancelled
    /\ SelectedLeaves # {}
    /\ searchQuery # <<>>

\* The cycle of output modes as the key table states it.
StatedNextMode(m) ==
    CASE m = "stdout"    -> "clipboard"
      [] m = "clipboard" -> "file"
      [] m = "file"      -> "stdout"

\* C23: the output mode starts at clipboard and is always stdout, clipboard
\* or file; a Browsing step that reads the cycle-output key advances it
\* stdout -> clipboard -> file -> stdout and every other step keeps it, so
\* three presses in a row bring back the mode they started from.
C23_OutputModeCycle ==
    /\ outputMode = "clipboard"
    /\ [](outputMode \in {"stdout", "clipboard", "file"})
    /\ [][IF pc = "read" /\ ~searchMode /\ input' = "o"
          THEN /\ outputMode' = StatedNextMode(outputMode)
               /\ StatedNextMode(StatedNextMode(outputMode')) = outputMode
          ELSE outputMode' = outputMode]_vars

\* C23 witness: the cycle-output key has just been pressed and the mode is
\* clipboard again, which takes three presses (or six, ...).
C23_Witness ==
    /\ pc = "render" /\ input = "o"
    /\ outputMode = "clipboard"

\* C24: a Browsing step that reads expand-all (collapse-all) leaves every
\* directory of the live tree expanded (collapsed), with or without a
\* query; collapse-all also puts the cursor on index 0; and the frame after
\* collapse-all with an empty query lists exactly the root nodes.
C24_ExpandCollapseAll ==
    /\ [][(pc = "read" /\ ~searchMode /\ input' \in {"e", "c"}) =>
            /\ \A n \in DOMAIN tree :
                   Tree.node[n].isDirectory =>
                       tree'[n].expanded = (input' = "e")
            /\ input' = "c" => cursorIndex' = 0]_vars
    /\ [](pc = "render" /\ ~searchMode /\ input = "c" /\ searchQuery = <<>> =>
            Flatten(Tree) = Tree.items)

\* C24 witness: collapse-all pressed with the ignored directory shown and no
\* query; the three root nodes are the rows and the cursor is on the first.
C24_Witness ==
    /\ pc = "render" /\ ~searchMode /\ input = "c"
    /\ searchQuery = <<>> /\ showIgnored
    /\ Len(FlatItems) = 3
    /\ cursorIndex = 0
    /\ \A n \in DOMAIN tree : ~tree[n].expanded

\* C25: filtering with the empty query gives back the live tree itself, with
\* the selected and expanded flags it has: the same rows and the same
\* selected files as without the filter.
C25_EmptyQueryIsIdentity ==
    LET ft == FilterTree(Tree, <<>>)
    IN  /\ ft = Tree
        /\ Flatten(ft) = Flatten(Tree)
        /\ GetSelectedFiles(ft.node, ft.items) =
               GetSelectedFiles(Tree.node, Tree.items)
        /\ searchQuery = <<>> => FilteredTree = Tree

\* C25 witness: escape has just cleared a query; in the live tree a file is
\* selected, src is collapsed and the frame to come lists the live rows.
C25_Witness ==
    /\ pc = "render" /\ ~searchMode /\ input = "escape"
    /\ searchQuery = <<>>
    /\ SelectedLeaves # {}
    /\ \E n \in DOMAIN tree : Tree.node[n].isDirectory /\ ~tree[n].expanded
    /\ \E n \in DOMAIN tree : Tree.node[n].isDirectory /\ tree[n].expanded
    /\ FilteredTree = Tree

\* The files of a walk: its entries that are not directories.
WalkFiles(walk) ==
    { i \in 1..Len(walk) : ~walk[i].isDirectory }

\* C26: toggleAll(tree, true) followed by getSelectedFiles, on a tree of any
\* shape in any selection state, returns one entry for each file of the
\* tree and no other, in increasing order of relative path.
C26_SelectAllCollectsEveryLeaf ==
    (pc = "called" /\ call.fn = "toggleAll") =>
        LET files == ret.files
        IN  /\ Len(files) = Cardinality(WalkFiles(call.walk))
            /\ \A i \in WalkFiles(call.walk) : \E k \in 1..Len(files) :
                   /\ files[k].absolutePath = call.walk[i].path
                   /\ files[k].relativePath = JoinPath(call.walk[i].path)
            /\ \A i, j \in 1..Len(files) :
                   i < j => LocaleCompare(files[i].relativePath,
                                          files[j].relativePath) < 0

\* C26 witness: the call was made on the tree with nested directories, an
\* empty directory and a root file, where a directory was selected and the
\* files below it were not; all three files are returned.
C26_Witness ==
    /\ pc = "called" /\ call.fn = "toggleAll"
    /\ call.walk = WalkEntries
    /\ call.selected = { <<N_src>>, <<N_tmp>> }
    /\ Len(ret.files) = 3
    /\ ret.files[1].relativePath = JoinPath(<<N_root>>)

\* The kinds of the effects main has had.
EffectKinds == { effects[i].kind : i \in 1..Len(effects) }

\* runInteractive returned null, or a result without files.
NoSelection ==
    \/ result.kind = "null"
    \/ result.kind = "result" /\ Len(result.files) = 0

\* C27: once main has gone on from a selector that returned cancelled or a
\* result with zero files, it has written "No files selected." to stderr
\* and exited with status 1, and nothing else: no file read for the bundle,
\* nothing written to stdout, to a file or to the clipboard.
C27_NoSelectionExits ==
    (NoSelection /\ pc \notin {"done", "returned"}) =>
        /\ pc = "exited"
        /\ Len(effects) = 2
        /\ effects[1].kind = "stderr" /\ effects[1].arg = "No files selected."
        /\ effects[2].kind = "exit" /\ effects[2].arg = "1"
        /\ EffectKinds \cap {"read", "stdout", "writeFile", "pbcopy", "prompt"} = {}

\* C27 witness: enter was pressed with nothing selected and the output mode
\* on file; main has reported and exited.
C27_Witness ==
    /\ pc = "exited"
    /\ result.kind = "result" /\ Len(result.files) = 0
    /\ result.outputMode = "file"
    /\ Len(effects) = 2 /\ effects[2].kind = "exit"

\* C28: the list discoverFiles returns is in non-decreasing order of
\* relative path, whatever source listed the files, in whatever order, and
\* whatever the filters kept.
C28_DiscoverFilesSorted ==
    (pc = "called" /\ call.fn = "discoverFiles") =>
        \A i, j \in 1..Len(ret) :
            i < j => LocaleCompare(ret[i].relativePath, ret[j].relativePath) <= 0

\* C28 witness: the source listed TMP/x.ts, src/main.ts, src.ts in that
\* order; the three are returned in the reverse order.
C28_Witness ==
    /\ pc = "called" /\ call.fn = "discoverFiles"
    /\ call.listing = << <<N_tmp, N_x>>, <<N_src, N_main>>, <<N_root>> >>
    /\ Len(ret) = 3
    /\ ret[1].absolutePath = <<N_root>>
    /\ ret[3].absolutePath = <<N_tmp, N_x>>

\* The leaves among the rows of the filtered view.
VisibleLeaves == { n \in Elems(FlatItems) : n > 0 }

\* C29 as stated: with a non-empty query, when a toggle-all press has just
\* left every visible leaf selected, the toggle-all press that follows it
\* leaves every visible leaf unselected.
C29_ToggleAllAlternates ==
    (/\ pc = "render" /\ ~searchMode /\ input = "a" /\ searchQuery # <<>>
     /\ VisibleLeaves # {}
     /\ \A n \in VisibleLeaves : Tree.node[n].selected) =>
        LET after == ToggleAllKey(Tree, searchQuery)
        IN  \A n \in VisibleLeaves : ~after[n].selected

\* C30 as stated, on the terminals where the scroll adjustment itself keeps
\* the cursor in its window (more rows than the reservation): at every
\* render of a view with rows, the cursor is on one of the rows render
\* draws: scrollOffset <= cursorIndex < scrollOffset + availableHeight, with
\* the help block or the search bar shown or not.
C30_CursorRowIsDrawn ==
    (pc = "read" /\ Len(FlatItems) > 0 /\ terminalHeight > ReservedRows) =>
        LET availableHeight ==
                AvailableHeight(terminalHeight, showHelp, searchMode, searchQuery)
        IN  /\ scrollOffset <= cursorIndex
            /\ cursorIndex < scrollOffset + availableHeight
            /\ cursorIndex \in VisibleIndexes(FlatItems, scrollOffset, availableHeight)

\* The same without the help block: there render draws at least the rows
\* of the scroll window, and the cursor row among them.
C30_CursorRowIsDrawnWithoutHelp ==
    (pc = "read" /\ Len(FlatItems) > 0 /\ terminalHeight > ReservedRows
        /\ ~showHelp) =>
        cursorIndex \in
            VisibleIndexes(FlatItems, scrollOffset,
                           AvailableHeight(terminalHeight, showHelp, searchMode,
                                           searchQuery))

\* The items of a tree that can be reached from its list of roots.
Reachable(t) ==
    UNION { Subtree(t.node, t.items[i]) : i \in 1..Len(t.items) }

\* C31 as stated: every entry buildTree collected, other than the working
\* directory itself, is a returned root or a descendant of one, and a root
\* with at least one entry below it never yields the empty list, wherever
\* the root lies in or below the working directory.
C31_EveryEntryInForest ==
    (pc = "called" /\ call.fn = "buildTree" /\ call.showIgnored) =>
        /\ { ret.node[n].path : n \in Reachable(ret) } =
              { call.walk[i].path : i \in 1..Len(call.walk) } \ { <<>> }
        /\ Len(call.walk) > 1 => ret.items # <<>>

\* The same for a root that is the working directory or a child of it.
C31_EveryEntryInForestNearRoot ==
    (pc = "called" /\ call.fn = "buildTree" /\ call.showIgnored
        /\ Len(call.root) <= 1) =>
        /\ { ret.node[n].path : n \in Reachable(ret) } =
              { call.walk[i].path : i \in 1..Len(call.walk) } \ { <<>> }
        /\ Len(call.walk) > 1 => ret.items # <<>>

\* C32: filterTree leaves the live tree as it is: for every query, each live
\* item has after the call the selected flag, the expanded flag, the
\* children list and the parent it had before (and every other field), and
\* the head of the loop, which computes the filtered view, does not change
\* the tree.
C32_FilterKeepsLiveTree ==
    /\ [](\A q \in QueryPrefixes :
            LET ft == FilterTree(Tree, q)
            IN  \A n \in DOMAIN Tree.node : ft.node[n] = Tree.node[n])
    /\ [][pc = "render" => tree' = tree]_vars

\* C32 witness: a frame under a query in which the copy of src is a row,
\* expanded, while the live src is collapsed, and a live file is selected.
C32_Witness ==
    /\ pc = "read" /\ searchQuery # <<>>
    /\ \E i \in 1..Len(FlatItems) :
          /\ FlatItems[i] < 0
          /\ FilteredTree.node[FlatItems[i]].expanded
          /\ ~Tree.node[-FlatItems[i]].expanded
    /\ SelectedLeaves # {}

\* C33: with a non-empty query, a space or toggle-all step changes the
\* selected flag of no file that is not a row of the filtered view; the
\* files a space on a row changes lie at or below that row's item and match
\* the query.
C33_HiddenLeavesKeepSelection ==
    [][ (pc = "read" /\ ~searchMode /\ searchQuery # <<>>
            /\ input' \in {" ", "a"}) =>
          LET changed == { n \in LiveLeaves :
                             tree'[n].selected # tree[n].selected }
          IN  /\ changed \subseteq Elems(FlatItems)
              /\ (input' = " " /\ changed # {}) =>
                    /\ HasItem(FlatItems, cursorIndex)
                    /\ changed \subseteq
                          Subtree(Tree.node, LiveOf(ItemAt(FlatItems, cursorIndex)))
                    /\ \A n \in changed : MatchesIgnoringCase(n, searchQuery)
      ]_vars

\* C33 witness: under the query "main", space on the row of src has selected
\* main.ts and left x.ts, which is below src and not in the view, unselected.
C33_Witness ==
    /\ pc = "render" /\ ~searchMode /\ input = " "
    /\ searchQuery = <<"m", "a", "i", "n">>
    /\ cursorIndex = 0
    /\ \E n \in SelectedLeaves : Tree.node[n].name = N_main
    /\ \E n \in LiveLeaves \ SelectedLeaves : Tree.node[n].name = N_x

------------------------------------------------------------------------------
(* The ignored-toggle with its rebuild in flight.  buildTree is an async
   function: the loop is suspended at  await buildTree(...)  while the git
   command and the walk run, and goes on when the promise settles. *)

\* The rebuild started by 'i', before anything of it has been awaited.
RebuildStarted(showIgn) ==
    [fn |-> "rebuild", showIgnored |-> showIgn,
     at |-> IF showIgn THEN "walk" ELSE "git"]

\* Variant: the loop does not wait for the rebuild it started.
KeyIgnoredBeginNoAwait ==
    /\ pc = "read" /\ ~searchMode
    /\ input' = "i"
    /\ showIgnored' = ~showIgnored
    /\ call' = RebuildStarted(~showIgnored)
    /\ cursorIndex' = 0
    /\ scrollOffset' = 0
    /\ pc' = "render"
    /\ UNCHANGED <<tree, outputMode, showHelp, searchMode, searchQuery,
                   terminalHeight, result, terminal, ret, effects>>

\* 'i' up to the await: the flag is flipped, buildTree is called, the loop
\* is suspended.
KeyIgnoredBegin ==
    /\ pc = "read" /\ ~searchMode
    /\ input' = "i"
    /\ showIgnored' = ~showIgnored
    /\ call' = RebuildStarted(~showIgnored)
    /\ pc' = "await"
    /\ UNCHANGED <<tree, cursorIndex, scrollOffset, outputMode, showHelp,
                   searchMode, searchQuery, terminalHeight, result, terminal,
                   ret, effects>>

\* The rebuild's git command returns.
RebuildGit ==
    /\ call.fn = "rebuild" /\ call.at = "git"
    /\ call' = [call EXCEPT !.at = "walk"]
    /\ UNCHANGED <<tree, cursorIndex, scrollOffset, outputMode, showHelp,
                   showIgnored, searchMode, searchQuery, terminalHeight, input,
                   pc, result, terminal, ret, effects>>

\* The rebuild's walk ends: the entries are collected and sorted.
RebuildWalk ==
    /\ call.fn = "rebuild" /\ call.at = "walk"
    /\ call' = [call EXCEPT !.at = "settled"]
    /\ ret' = [kind |-> "entries", entries |-> CollectEntries(call.showIgnored)]
    /\ UNCHANGED <<tree, cursorIndex, scrollOffset, outputMode, showHelp,
                   showIgnored, searchMode, searchQuery, terminalHeight, input,
                   pc, result, terminal, effects>>

\* The promise settles and the loop goes on: the tree is assigned, the
\* cursor and the scroll are reset, no later test of the key matches.
KeyIgnoredResume ==
    /\ pc = "await"
    /\ call.fn = "rebuild" /\ call.at = "settled"
    /\ tree' = Flags(AssembleTree(ret.entries).node)
    /\ cursorIndex' = 0
    /\ scrollOffset' = 0
    /\ call' = NoCall
    /\ ret' = NoReturn
    /\ pc' = "render"
    /\ UNCHANGED <<showIgnored, outputMode, showHelp, searchMode, searchQuery,
                   terminalHeight, input, result, terminal, effects>>

\* Sessions with rebuilds in flight.
NextRebuild ==
    \/ RenderFallback
    \/ ReadEOF
    \/ SearchExit
    \/ SearchType
    \/ KeyQuit
    \/ KeySlash
    \/ KeyEscape
    \/ KeyIgnoredBegin
    \/ RebuildGit
    \/ RebuildWalk
    \/ KeyIgnoredResume
    \/ KeySpace
    \/ KeyDown
    \/ KeyRight
    \/ KeyExpandAll

SpecRebuild == Init /\ [][NextRebuild]_vars

\* C34: while a rebuild is in flight the loop is suspended at its await, so
\* no key is read or dispatched and nothing but the rebuild moves; render and
\* read see a tree that is the whole of what buildTree makes for the current
\* showIgnored; each iteration reads one key, at the read, and is back at the
\* head of the loop (or out of it) before the next; the tree changes only in
\* the processing of that key.
C34_RebuildIsAwaited ==
    /\ [](call.fn = "rebuild" => pc = "await")
    /\ [](pc = "await" => call.fn = "rebuild" /\ input = "i")
    /\ [](pc \in {"render", "read"} =>
            /\ call = NoCall
            /\ DOMAIN tree = {k \in DOMAIN BuiltTree[showIgnored].node : k > 0})
    /\ [][ /\ (pc = "await" =>
                  /\ input' = input
                  /\ searchQuery' = searchQuery /\ searchMode' = searchMode
                  /\ (tree' # tree \/ pc' # pc) =>
                        /\ pc' = "render" /\ call' = NoCall
                        /\ cursorIndex' = 0 /\ scrollOffset' = 0
                        /\ tree' = Flags(BuiltTree[showIgnored].node))
           /\ (input' # input => pc = "read" \/ (pc = "render" /\ input' = NoInput))
           /\ (pc = "read" => input' # input \/ pc' = "done")
           /\ (pc = "read" => pc' \in {"render", "await", "done"})
           /\ (tree' # tree => pc \in {"read", "await"})
       ]_vars

\* C34 witness: the rebuild for the other setting of showIgnored has been
\* awaited and the loop is back at its head with the key still "i".
C34_Witness ==
    /\ pc = "render" /\ input = "i" /\ showIgnored
    /\ call = NoCall
    /\ tree = Flags(BuiltTree[TRUE].node)
    /\ tree # Flags(BuiltTree[FALSE].node)

\* C35: a space or toggle-all step changes no expanded flag; an up, down,
\* jump-next or jump-prev step, and a left step on a row that is not an
\* expanded directory, changes no flag at all; a step that changes an
\* expanded flag (or the items of the tree) is a left or right step on a
\* directory row, an expand-all, a collapse-all or an ignored-toggle.
C35_KeysKeepOtherFlags ==
    [][ LET key == pc = "read" /\ ~searchMode
            expandedChanged ==
                \/ DOMAIN tree' # DOMAIN tree
                \/ \E n \in DOMAIN tree : tree'[n].expanded # tree[n].expanded
            onRow == HasItem(FlatItems, cursorIndex)
            row == FilteredTree.node[ItemAt(FlatItems, cursorIndex)]
        IN  /\ (key /\ input' \in {" ", "a"}) => ~expandedChanged
            /\ (key /\ input' \in {"up", "down", "f", "F"}) => tree' = tree
            /\ (key /\ input' = "left"
                    /\ ~(onRow /\ row.isDirectory /\ row.expanded)) => tree' = tree
            /\ expandedChanged =>
                  /\ key
                  /\ \/ input' \in {"e", "c", "i"}
                     \/ input' \in {"left", "right"} /\ onRow /\ row.isDirectory
      ]_vars

\* C35 witness: toggle-all has just selected files in a tree where one
\* directory is open and another is closed.
C35_Witness ==
    /\ pc = "render" /\ input = "a"
    /\ SelectedLeaves # {}
    /\ \E n \in DOMAIN Tree.node : Tree.node[n].isDirectory /\ Tree.node[n].expanded
    /\ \E n \in DOMAIN Tree.node : Tree.node[n].isDirectory /\ ~Tree.node[n].expanded

------------------------------------------------------------------------------
(* toggleSelection on its own *)

\* The second argument of toggleSelection: not passed, true, false.
OptionalFlags == {Undefined, <<TRUE>>, <<FALSE>>}

InitToggle ==
    /\ SessionAtRest
    /\ pc = "call"
    /\ call \in [fn : {"toggleSelection"}, walk : Walks,
                  selected : SUBSET ItemPaths, item : ItemPaths,
                  value : OptionalFlags]
    /\ call.item \in PathsOf(TreeSelecting(call.walk, {}))
    /\ ret = NoReturn

\* toggleSelection(item, value) on an item of a tree in any selection state.
ToggleSelectionCall ==
    /\ pc = "call" /\ call.fn = "toggleSelection"
    /\ LET t == TreeSelecting(call.walk, call.selected)
           item == CHOOSE n \in DOMAIN t.node : t.node[n].path = call.item
       IN  ret' = [ items |-> t.items,
                    node  |-> ToggleSelection(t.node, item, call.value) ]
    /\ pc' = "called"
    /\ UNCHANGED <<tree, cursorIndex, scrollOffset, outputMode, showHelp,
                   showIgnored, searchMode, searchQuery, terminalHeight, input,
                   result, terminal, call, effects>>

NextToggle == ToggleSelectionCall

SpecToggle == InitToggle /\ [][NextToggle]_vars

\* p is the path of q, of something below q, or of something above q.
InLineWith(p, q) == IsPrefix(q, p) \/ IsPrefix(p, q)

\* C36: after toggleSelection(item, value), on a tree of any shape in any
\* selection state, every item that is not the toggled item, below it or
\* above it has the selected flag it had before the call; and the toggled
\* item has the value passed, or the opposite of what it had.
C36_ToggleSelectionFrame ==
    (pc = "called" /\ call.fn = "toggleSelection") =>
        /\ \A n \in DOMAIN ret.node :
              ~InLineWith(ret.node[n].path, call.item) =>
                  (ret.node[n].selected <=> ret.node[n].path \in call.selected)
        /\ \A n \in DOMAIN ret.node :
              (ret.node[n].path = call.item /\ ~ret.node[n].isDirectory) =>
                  (ret.node[n].selected <=>
                      IF call.value = Undefined THEN call.item \notin call.selected
                      ELSE call.value[1])

\* C36 witness: src/main.ts was toggled to selected in a tree where its
\* cousin src/lib/x.ts and the unrelated root src.ts were selected, and the
\* root stays so, while src, above it, was recomputed to unselected.
C36_Witness ==
    /\ pc = "called" /\ call.fn = "toggleSelection"
    /\ call.item = <<N_src, N_main>>
    /\ call.selected = {<<N_src>>, <<N_src, N_lib, N_x>>, <<N_root>>}
    /\ \E n \in DOMAIN ret.node : ret.node[n].path = <<N_src, N_main>> /\ ret.node[n].selected
    /\ \E n \in DOMAIN ret.node : ret.node[n].path = <<N_src>> /\ ~ret.node[n].selected
    /\ \E n \in DOMAIN ret.node : ret.node[n].path = <<N_root>> /\ ret.node[n].selected

\* C36 in the sessions: a space step changes the selected flag only of items
\* at, below or above the path of the row under the cursor (under a query
\* the row of a directory is filterTree's copy of it).
C36_SpaceFrameInSession ==
    [][ (pc = "read" /\ ~searchMode /\ input' = " "
            /\ HasItem(FlatItems, cursorIndex)) =>
          LET rowPath == FilteredTree.node[ItemAt(FlatItems, cursorIndex)].path
          IN  \A n \in DOMAIN tree :
                 tree'[n].selected # tree[n].selected =>
                     InLineWith(Tree.node[n].path, rowPath) ]_vars

\* C37: whenever a frame has been rendered with at least one row, the cursor
\* index it was rendered with is the index of one of the rows.
C37_CursorOnARow ==
    (pc = "read" /\ Len(FlatItems) > 0) =>
        (0 <= cursorIndex /\ cursorIndex < Len(FlatItems))

\* C37 witness: a frame of a filtered view rendered with the cursor on its
\* last row, in a tree where a directory has been closed.
C37_Witness ==
    /\ pc = "read" /\ searchQuery # <<>>
    /\ Len(FlatItems) > 1
    /\ cursorIndex = Len(FlatItems) - 1
    /\ \E n \in DOMAIN Tree.node : Tree.node[n].isDirectory /\ ~Tree.node[n].expanded

\* C39: on the rows of every view, from every row that is a directory,
\* findPrevFolder of findNextFolder is that row, and findNextFolder of
\* findPrevFolder is that row.
C39_JumpsUndoEachOther ==
    LET ft == FilteredTree
        flatItems == FlattenTree(ft.node, ft.items)
    IN  \A i \in 0..(Len(flatItems) - 1) :
            IsDir(ft.node, flatItems, i) =>
                /\ FindPrevFolder(ft.node, flatItems,
                                  FindNextFolder(ft.node, flatItems, i)) = i
                /\ FindNextFolder(ft.node, flatItems,
                                  FindPrevFolder(ft.node, flatItems, i)) = i

\* C39 witness: jump-prev has put the cursor on the last of three directory
\* rows.
C39_Witness ==
    LET ft == FilteredTree
        flatItems == FlattenTree(ft.node, ft.items)
        dirs == {i \in 0..(Len(flatItems) - 1) : IsDir(ft.node, flatItems, i)}
    IN  /\ pc = "render" /\ input = "F"
        /\ Cardinality(dirs) = 3
        /\ cursorIndex \in dirs /\ \A j \in dirs : j <= cursorIndex

\* The rows shown when no query is active and the flags are `flags`, each
\* with its expanded flag.
UnfilteredRows(flags, showIgn) ==
    LET t == TreeOf(flags, showIgn)
        rows == FlattenTree(t.node, t.items)
    IN  [i \in 1..Len(rows) |-> <<rows[i], t.node[rows[i]].expanded>>]

\* C38: from the typing of a query to its clearing, no step other than
\* expand-all, collapse-all and the ignored-toggle changes the rows the
\* unfiltered view consists of (items, order, expanded flags), left and right
\* on rows of the filtered view included; and the step that clears the query
\* shows exactly those rows.
C38_ClearingRestoresRows ==
    [][ /\ (searchMode \/ (searchQuery # <<>> /\ input' \notin {"e", "c", "i"})) =>
              UnfilteredRows(tree', showIgnored') = UnfilteredRows(tree, showIgnored)
        /\ (searchQuery # <<>> /\ searchQuery' = <<>>) =>
              LET ft == FilteredTreeOf(TreeOf(tree', showIgnored'), searchQuery')
                  shown == FlattenTree(ft.node, ft.items)
              IN  [i \in 1..Len(shown) |-> <<shown[i], ft.node[shown[i]].expanded>>]
                      = UnfilteredRows(tree, showIgnored)
      ]_vars

\* C38 witness: left has been pressed on the row of a directory in a filtered
\* view, and the directory behind that row is still open.
C38_Witness ==
    /\ pc = "render" /\ ~searchMode /\ input = "left"
    /\ searchQuery # <<>>
    /\ HasItem(FlatItems, cursorIndex)
    /\ ItemAt(FlatItems, cursorIndex) < 0
    /\ Tree.node[LiveOf(ItemAt(FlatItems, cursorIndex))].expanded
    /\ \E n \in DOMAIN Tree.node : Tree.node[n].isDirectory /\ ~Tree.node[n].expanded

\* Some path of the set lies beneath path.
HasPathBeneath(path, files) ==
    \E f \in files : /\ Len(f) > Len(path)
                     /\ \A i \in 1..Len(path) : f[i] = path[i]

\* C40: when buildTree filters by a git listing (showIgnored false, the
\* lookup succeeded), every file of the built tree is a listed path, every
\* directory of it has a listed path beneath it, and every entry of the walk
\* below the root that is a listed file, or a directory with a listed path
\* beneath it, has its item.
C40_TreeIsGitVisiblePart ==
    (pc = "called" /\ call.fn = "buildTree" /\ ~call.showIgnored
        /\ call.git.outcome = "listed") =>
        /\ \A n \in DOMAIN ret.node :
              IF ret.node[n].isDirectory
              THEN HasPathBeneath(ret.node[n].path, call.git.files)
              ELSE ret.node[n].path \in call.git.files
        /\ \A i \in 1..Len(call.walk) :
              LET e == call.walk[i]
              IN  (/\ e.path # <<>>
                   /\ IF e.isDirectory THEN HasPathBeneath(e.path, call.git.files)
                      ELSE e.path \in call.git.files)
                  => e.path \in { ret.node[n].path : n \in Reachable(ret) }

\* C40 witness: git lists src/lib/x.ts and a file that is not on disk; the
\* tree has src, src/lib and src/lib/x.ts, and neither src/main.ts, src.ts
\* nor the directory tmp, all of which the walk yields.
C40_Witness ==
    /\ pc = "called" /\ call.fn = "buildTree" /\ ~call.showIgnored
    /\ call.git = [outcome |-> "listed",
                   files |-> {<<N_src, N_lib, N_x>>, <<N_lib, N_x>>}]
    /\ call.walk = WalkEntries
    /\ PathsOf(ret) = {<<N_src>>, <<N_src, N_lib>>, <<N_src, N_lib, N_x>>}

====
